---- MODULE Spec2Model ----
(***************************************************************************)
(* A model of bytedump-python (src/src/python/bytedump-python.py): the     *)
(* byte selector parser, the attribute tables filled by the color options, *)
(* the mapping arrays and their decoration with ANSI escape sequences, the *)
(* fields and the layout that initialize() settles, and the dump methods.  *)
(*                                                                         *)
(* Text is a sequence of characters; a character is a one-character        *)
(* string, except for the few characters TLA+ strings cannot hold, which   *)
(* are named: "ESC" (U+001B), "U+0060", "U+00E9", "U+0100", "U+20AC".      *)
(***************************************************************************)
EXTENDS Integers, Sequences, FiniteSets, TLC

----------------------------------------------------------------------------
(* Characters and Python string primitives                                 *)

\* The printable ASCII characters, U+0020 .. U+007E, in code point order.
ASCII ==
    <<" ", "!", "\"", "#", "$", "%", "&", "'", "(", ")", "*", "+", ",", "-", ".", "/",
      "0", "1", "2", "3", "4", "5", "6", "7", "8", "9", ":", ";", "<", "=", ">", "?",
      "@", "A", "B", "C", "D", "E", "F", "G", "H", "I", "J", "K", "L", "M", "N", "O",
      "P", "Q", "R", "S", "T", "U", "V", "W", "X", "Y", "Z", "[", "\\", "]", "^", "_",
      "U+0060", "a", "b", "c", "d", "e", "f", "g", "h", "i", "j", "k", "l", "m", "n", "o",
      "p", "q", "r", "s", "t", "u", "v", "w", "x", "y", "z", "{", "|", "}", "~">>

\* Code points of the characters that are not in ASCII.
NamedChars ==
    [c \in {"\t", "ESC", "U+00E9", "U+0100", "U+20AC"} |->
        CASE c = "\t"     -> 9
          [] c = "ESC"    -> 27
          [] c = "U+00E9" -> 233
          [] c = "U+0100" -> 256
          [] c = "U+20AC" -> 8364]

OrdTable ==
    [c \in {ASCII[i] : i \in 1..Len(ASCII)} \cup DOMAIN NamedChars |->
        IF c \in DOMAIN NamedChars
            THEN NamedChars[c]
            ELSE 31 + (CHOOSE i \in 1..Len(ASCII) : ASCII[i] = c)]

\* Python's ord().
ord(c) == OrdTable[c]

\* Python's chr() on the printable ASCII block.
chr(n) == ASCII[n - 31]

CharRange(lo, hi) == {ASCII[i - 31] : i \in lo..hi}

WS_CHARS  == {" ", "\t"}                                        \* [ \t]
DEC_CHARS == CharRange(48, 57)                                  \* [0-9]
NZ_CHARS  == CharRange(49, 57)                                  \* [1-9]
OCT_CHARS == CharRange(48, 55)                                  \* [0-7]
HEX_CHARS == DEC_CHARS \cup CharRange(65, 70) \cup CharRange(97, 102)   \* [0-9a-fA-F]
ALNUM_CHARS == DEC_CHARS \cup CharRange(65, 90) \cup CharRange(97, 122) \* [a-zA-Z0-9]

\* s[n:] and s[:n] of Python.
Drop(s, n) == SubSeq(s, n + 1, Len(s))
Take(s, n) == SubSeq(s, 1, n)

\* The first index at or after i whose character is not in S (Len(s)+1 when
\* there is none): where a greedy character-class repetition stops.
RECURSIVE SpanEnd(_, _, _)
SpanEnd(s, i, S) ==
    IF i <= Len(s) /\ s[i] \in S THEN SpanEnd(s, i + 1, S) ELSE i

\* The value of a digit in Python's int(text, base).
DigitValue(c) ==
    IF c \in DEC_CHARS THEN ord(c) - 48
    ELSE IF c \in CharRange(97, 102) THEN ord(c) - 87
    ELSE ord(c) - 55

\* Python's int(digits, base) for a text made of digits of that base.
RECURSIVE int(_, _)
int(digits, base) ==
    IF digits = <<>> THEN 0
    ELSE int(Take(digits, Len(digits) - 1), base) * base + DigitValue(digits[Len(digits)])

HEX_UPPER_DIGITS == <<"0", "1", "2", "3", "4", "5", "6", "7", "8", "9", "A", "B", "C", "D", "E", "F">>
HEX_LOWER_DIGITS == <<"0", "1", "2", "3", "4", "5", "6", "7", "8", "9", "a", "b", "c", "d", "e", "f">>

\* Python's f"{n:b}", f"{n:o}", f"{n:d}", f"{n:x}", f"{n:X}" without padding.
RECURSIVE FormatDigits(_, _, _)
FormatDigits(n, base, digits) ==
    IF n < base THEN <<digits[n + 1]>>
    ELSE FormatDigits(n \div base, base, digits) \o <<digits[(n % base) + 1]>>

RECURSIVE Repeat(_, _)
Repeat(c, n) == IF n <= 0 THEN <<>> ELSE <<c>> \o Repeat(c, n - 1)

\* FormatPadded without its padding.
FormatUnpadded(n, base, digits, width, pad) == FormatDigits(n, base, digits)

\* Python's f"{n:0{width}...}" (pad = "0") and f"{n:>{width}}" (pad = " ").
FormatPadded(n, base, digits, width, pad) ==
    LET text == FormatDigits(n, base, digits)
    IN  Repeat(pad, width - Len(text)) \o text

\* Body applied to the value of an expression that is evaluated once (a
\* local variable of the code).
Bind(value, Body(_)) == CHOOSE result \in {Body(v) : v \in {value}} : TRUE

\* Python's sep.join(words[lo..hi]) and sep.join(words); the halves are
\* joined first to keep the evaluation of a long join shallow.
RECURSIVE JoinRange(_, _, _, _)
JoinRange(words, sep, lo, hi) ==
    IF lo > hi THEN <<>>
    ELSE IF lo = hi THEN words[lo]
    ELSE JoinRange(words, sep, lo, (lo + hi) \div 2) \o sep
             \o JoinRange(words, sep, (lo + hi) \div 2 + 1, hi)

Join(words, sep) == JoinRange(words, sep, 1, Len(words))

----------------------------------------------------------------------------
(* AttributeTables                                                         *)

TABLE_SIZE == 256

\* Python's None in an attribute slot.
None == "None"

\* Python's None where a table or a mapping array is expected.
NoTable == <<>>

\* [None] * self.TABLE_SIZE
NewTable == [index \in 0..(TABLE_SIZE - 1) |-> None]

\* The keys setup() registers with the AttributeTables constructor.
registered_keys == {"BYTE_BACKGROUND", "BYTE_FOREGROUND", "TEXT_BACKGROUND", "TEXT_FOREGROUND"}

\* get_table with a new table for every request.
get_table_new(tables, key) == NewTable

\* AttributeTables.get_table(key) on the dict tables: the table of key,
\* created on the first request.  The dict after the call is
\* [tables EXCEPT ![key] = get_table(tables, key)].
get_table(tables, key) ==
    IF tables[key] = NoTable THEN NewTable ELSE tables[key]

----------------------------------------------------------------------------
(* ByteDump.byte_selector                                                  *)

\* The selector strings that the character class names stand for.
CLASS_SELECTORS ==
    <<"a", "l", "n", "u", "m">> :>
        <<"0", "x", "(", "3", "0", "-", "3", "9", " ", "4", "1", "-", "5", "A", " ", "6",
          "1", "-", "7", "A", " ", "A", "A", " ", "B", "5", " ", "B", "A", " ", "C", "0",
          "-", "D", "6", " ", "D", "8", "-", "F", "6", " ", "F", "8", "-", "F", "F", ")">> @@
    <<"a", "l", "p", "h", "a">> :>
        <<"0", "x", "(", "4", "1", "-", "5", "A", " ", "6", "1", "-", "7", "A", " ", "A",
          "A", " ", "B", "5", " ", "B", "A", " ", "C", "0", "-", "D", "6", " ", "D", "8",
          "-", "F", "6", " ", "F", "8", "-", "F", "F", ")">> @@
    <<"b", "l", "a", "n", "k">> :>
        <<"0", "x", "(", "0", "9", " ", "2", "0", " ", "A", "0", ")">> @@
    <<"c", "n", "t", "r", "l">> :>
        <<"0", "x", "(", "0", "0", "-", "1", "F", " ", "7", "F", "-", "9", "F", ")">> @@
    <<"d", "i", "g", "i", "t">> :>
        <<"0", "x", "(", "3", "0", "-", "3", "9", ")">> @@
    <<"g", "r", "a", "p", "h">> :>
        <<"0", "x", "(", "2", "1", "-", "7", "E", " ", "A", "1", "-", "F", "F", ")">> @@
    <<"l", "o", "w", "e", "r">> :>
        <<"0", "x", "(", "6", "1", "-", "7", "A", " ", "A", "A", " ", "B", "5", " ", "B",
          "A", " ", "D", "F", "-", "F", "6", " ", "F", "8", "-", "F", "F", ")">> @@
    <<"p", "r", "i", "n", "t">> :>
        <<"0", "x", "(", "2", "0", "-", "7", "E", " ", "A", "0", "-", "F", "F", ")">> @@
    <<"p", "u", "n", "c", "t">> :>
        <<"0", "x", "(", "2", "1", "-", "2", "3", " ", "2", "5", "-", "2", "A", " ", "2",
          "C", "-", "2", "F", " ", "3", "A", "-", "3", "B", " ", "3", "F", "-", "4", "0",
          " ", "5", "B", "-", "5", "D", " ", "5", "F", " ", "7", "B", " ", "7", "D", " ",
          "A", "1", " ", "A", "7", " ", "A", "B", " ", "B", "6", "-", "B", "7", " ", "B",
          "B", " ", "B", "F", ")">> @@
    <<"s", "p", "a", "c", "e">> :>
        <<"0", "x", "(", "0", "9", "-", "0", "D", " ", "2", "0", " ", "8", "5", " ", "A",
          "0", ")">> @@
    <<"u", "p", "p", "e", "r">> :>
        <<"0", "x", "(", "4", "1", "-", "5", "A", " ", "C", "0", "-", "D", "6", " ", "D",
          "8", "-", "D", "E", ")">> @@
    <<"x", "d", "i", "g", "i", "t">> :>
        <<"0", "x", "(", "3", "0", "-", "3", "9", " ", "4", "1", "-", "4", "6", " ", "6",
          "1", "-", "6", "6", ")">> @@
    <<"a", "s", "c", "i", "i">> :>
        <<"0", "x", "(", "0", "0", "-", "7", "F", ")">> @@
    <<"l", "a", "t", "i", "n", "1">> :>
        <<"0", "x", "(", "8", "0", "-", "F", "F", ")">> @@
    <<"a", "l", "l">> :>
        <<"0", "x", "(", "0", "0", "-", "F", "F", ")">>

\* One integer of an integer token at s[i..]: kind names the regular
\* expression of the integer,
\*   "hex"  [0-9a-fA-F]+      "oct"  [0-7]+      "dec"  [1-9][0-9]*
\*   "chex" 0[xX]([0-9a-fA-F]+)                  "coct" 0[0-7]*
\* The result has the index after the integer and the digits handed to
\* int(); ok is FALSE when the expression does not match at i.
MatchNumber(s, i, kind) ==
    LET nomatch == [ok |-> FALSE, end |-> i, digits |-> <<>>]
        span(from, S) ==
            LET e == SpanEnd(s, from, S)
            IN  [ok |-> TRUE, end |-> e, digits |-> SubSeq(s, from, e - 1)]
    IN  CASE kind = "hex" ->
                IF i <= Len(s) /\ s[i] \in HEX_CHARS THEN span(i, HEX_CHARS) ELSE nomatch
          [] kind = "oct" ->
                IF i <= Len(s) /\ s[i] \in OCT_CHARS THEN span(i, OCT_CHARS) ELSE nomatch
          [] kind = "dec" ->
                IF i <= Len(s) /\ s[i] \in NZ_CHARS
                    THEN [span(i + 1, DEC_CHARS) EXCEPT !.digits = <<s[i]>> \o @]
                    ELSE nomatch
          [] kind = "chex" ->
                IF i + 2 <= Len(s) /\ s[i] = "0" /\ s[i + 1] \in {"x", "X"} /\ s[i + 2] \in HEX_CHARS
                    THEN span(i + 2, HEX_CHARS)
                    ELSE nomatch
          [] kind = "coct" ->
                IF i <= Len(s) /\ s[i] = "0"
                    THEN [span(i + 1, OCT_CHARS) EXCEPT !.digits = <<"0">> \o @]
                    ELSE nomatch

\* KindRadix with C-style octal integers converted as decimal ones.
KindRadixOctalAsDecimal(kind) ==
    CASE kind \in {"hex", "chex"} -> 16
      [] kind = "oct" -> 8
      [] kind \in {"dec", "coct"} -> 10

\* The radix each kind of integer is converted with.
KindRadix(kind) ==
    CASE kind \in {"hex", "chex"} -> 16
      [] kind \in {"oct", "coct"} -> 8
      [] kind = "dec" -> 10

\* AtSeparator without the test: a token may end anywhere.
AtSeparatorAnywhere(s, i) == TRUE

\* TRUE when index i of s is the end of s or a blank: ([ \t]+|$).
AtSeparator(s, i) == i > Len(s) \/ s[i] \in WS_CHARS

\* manager.matched(tokens, "^((N)([-](N))?)([ \t]+|$)") for the integer
\* expression N of kind, with first, last and the new value of tokens.
MatchInteger(tokens, kind) ==
    LET nomatch == [ok |-> FALSE, first |-> 0, last |-> -1, tokens |-> tokens]
    IN  Bind(MatchNumber(tokens, 1, kind), LAMBDA n1 :
            IF ~n1.ok THEN nomatch
            ELSE IF AtSeparator(tokens, n1.end)
                THEN [ok |-> TRUE,
                      first |-> int(n1.digits, KindRadix(kind)),
                      last |-> int(n1.digits, KindRadix(kind)),
                      tokens |-> Drop(tokens, SpanEnd(tokens, n1.end, WS_CHARS) - 1)]
            ELSE IF tokens[n1.end] # "-" THEN nomatch
            ELSE Bind(MatchNumber(tokens, n1.end + 1, kind), LAMBDA n2 :
                IF n2.ok /\ AtSeparator(tokens, n2.end)
                    THEN [ok |-> TRUE,
                          first |-> int(n1.digits, KindRadix(kind)),
                          last |-> int(n2.digits, KindRadix(kind)),
                          tokens |-> Drop(tokens, SpanEnd(tokens, n2.end, WS_CHARS) - 1)]
                    ELSE nomatch))

\* The integer token at the start of tokens, in the selector's base
\* (lines 746-784): the expression of the base or, when no base is set, the
\* C-style expressions for hex, octal and decimal integers in that order.
ExtractInteger(tokens, base) ==
    CASE base = 16 -> MatchInteger(tokens, "hex")
      [] base = 8  -> MatchInteger(tokens, "oct")
      [] base = 10 -> MatchInteger(tokens, "dec")
      [] OTHER ->
            Bind(MatchInteger(tokens, "chex"), LAMBDA hex :
                IF hex.ok THEN hex
                ELSE Bind(MatchInteger(tokens, "coct"), LAMBDA octal :
                    IF octal.ok THEN octal ELSE MatchInteger(tokens, "dec")))

\* AssignRange with the loop range(first, last), which leaves out last.
AssignRangeExclusive(first, last) ==
    IF first <= last /\ first < 256
        THEN LET clamped == IF last > 256 THEN 256 ELSE last
             IN  [status |-> "ok",
                  indices |-> {index \in first..(clamped - 1) : index < TABLE_SIZE}]
        ELSE [status |-> "ok", indices |-> {}]

\* AssignRange with a user error for the ranges that the loop skips.
AssignRangeStrict(first, last) ==
    IF first <= last /\ first < 256
        THEN LET clamped == IF last > 256 THEN 256 ELSE last
             IN  [status |-> IF clamped >= TABLE_SIZE THEN "IndexError" ELSE "ok",
                  indices |-> {index \in first..clamped : index < TABLE_SIZE}]
        ELSE [status |-> "user_error", indices |-> {}]

\* Lines 785-789: the indices of output that the loop assigns for the
\* range first..last.  output has TABLE_SIZE slots, so the assignment to
\* index 256 raises IndexError after the slots below it were written.
AssignRange(first, last) ==
    IF first <= last /\ first < 256
        THEN LET clamped == IF last > 256 THEN 256 ELSE last
             IN  [status |-> IF clamped >= TABLE_SIZE THEN "IndexError" ELSE "ok",
                  indices |-> {index \in first..clamped : index < TABLE_SIZE}]
        ELSE [status |-> "ok", indices |-> {}]

\* manager.matched(tokens, "^[ \t]*(0[xX]?)?[(](.*)[)][ \t]*$"): the base
\* prefix and the text between the parentheses.
MatchBaseGroup(tokens) ==
    LET start == SpanEnd(tokens, 1, WS_CHARS)
        open == IF start <= Len(tokens) /\ tokens[start] = "(" THEN start
                ELSE IF start + 1 <= Len(tokens) /\ tokens[start] = "0" /\ tokens[start + 1] = "("
                    THEN start + 1
                ELSE IF start + 2 <= Len(tokens) /\ tokens[start] = "0"
                        /\ tokens[start + 1] \in {"x", "X"} /\ tokens[start + 2] = "("
                    THEN start + 2
                ELSE 0
        closers == {i \in 1..Len(tokens) :
                       tokens[i] = ")" /\ SpanEnd(tokens, i + 1, WS_CHARS) > Len(tokens)}
        close == CHOOSE i \in closers : \A j \in closers : j <= i
    IN  IF open = 0 \/ closers = {} \/ close <= open
            THEN [ok |-> FALSE, prefix |-> <<>>, tokens |-> tokens]
            ELSE [ok |-> TRUE,
                  prefix |-> SubSeq(tokens, start, open - 1),
                  tokens |-> SubSeq(tokens, open + 1, close - 1)]

\* manager.matched(tokens, "^\[:([a-zA-Z0-9]+):\]([ \t]+|$)")
MatchClass(tokens) ==
    LET e == SpanEnd(tokens, 3, ALNUM_CHARS)
    IN  IF e > 3 /\ e + 1 <= Len(tokens) /\ tokens[e] = ":" /\ tokens[e + 1] = "]"
           /\ AtSeparator(tokens, e + 2)
            THEN [ok |-> TRUE,
                  name |-> SubSeq(tokens, 3, e - 1),
                  tokens |-> Drop(tokens, SpanEnd(tokens, e + 2, WS_CHARS) - 1)]
            ELSE [ok |-> FALSE, name |-> <<>>, tokens |-> tokens]

\* manager.matched(tokens, "^(r([#]*)(\"|'))"): the raw string prefix and
\* the suffix that closes it.
MatchRawPrefix(tokens) ==
    LET e == SpanEnd(tokens, 2, {"#"})
    IN  IF Len(tokens) >= 2 /\ tokens[1] = "r" /\ e <= Len(tokens) /\ tokens[e] \in {"\"", "'"}
            THEN [ok |-> TRUE, prefix |-> Take(tokens, e),
                  suffix |-> <<tokens[e]>> \o SubSeq(tokens, 2, e - 1)]
            ELSE [ok |-> FALSE, prefix |-> <<>>, suffix |-> <<>>]

\* SearchSuffix with the rightmost occurrence of suffix, as a greedy
\* "(.*)" in front of suffix would find it.
SearchSuffixLast(tokens, suffix) ==
    LET found == {i \in 1..(Len(tokens) - Len(suffix) + 1) :
                     SubSeq(tokens, i, i + Len(suffix) - 1) = suffix}
    IN  IF found = {} THEN 0 ELSE CHOOSE i \in found : \A j \in found : j <= i

\* re.search(suffix + "(.*)", tokens): the index of the leftmost occurrence
\* of suffix in tokens, 0 when there is none.
SearchSuffix(tokens, suffix) ==
    LET found == {i \in 1..(Len(tokens) - Len(suffix) + 1) :
                     SubSeq(tokens, i, i + Len(suffix) - 1) = suffix}
    IN  IF found = {} THEN 0 ELSE CHOOSE i \in found : \A j \in found : i <= j

\* Lines 847-858: the selector "0x(..)" listing, in ascending order, the
\* code points below 256 of the characters of body; <<>> when count is 0.
RECURSIVE JoinedChars(_, _)
JoinedChars(codes, from) ==
    IF \A code \in codes : code < from THEN <<>>
    ELSE Bind(CHOOSE c \in codes : c >= from /\ \A d \in codes : d >= from => c <= d,
              LAMBDA code :
                  Bind(JoinedChars(codes, code + 1), LAMBDA rest :
                      FormatPadded(code, 16, HEX_UPPER_DIGITS, 2, "0")
                          \o (IF rest = <<>> THEN <<>> ELSE <<" ">> \o rest)))

\* RawSelector with the test code < 128 in place of code < len(chars).
RawSelectorAscii(body) ==
    LET codes == {ord(body[index]) : index \in 1..Len(body)} \cap 0..127
    IN  IF codes = {} THEN <<>>
        ELSE <<"0", "x", "(">> \o JoinedChars(codes, 0) \o <<")">>

RawSelector(body) ==
    LET codes == {ord(body[index]) : index \in 1..Len(body)} \cap 0..255
    IN  IF codes = {} THEN <<>>
        ELSE <<"0", "x", "(">> \o JoinedChars(codes, 0) \o <<")">>

\* One iteration of the while loop of lines 740-862 on tokens, which starts
\* with a character that is not a blank: the range first..last to assign
\* (0..-1, the initial values, when the token is not an integer), the
\* selector of the recursive call (<<>> when there is none), the value of
\* tokens after the iteration, and status "user_error" when the iteration
\* ends in user_error().
Iteration(tokens, base) ==
    LET step(first, last, call, rest) ==
            [status |-> "ok", first |-> first, last |-> last, call |-> call, tokens |-> rest]
        failed == [status |-> "user_error", first |-> 0, last |-> -1, call |-> <<>>,
                   tokens |-> tokens]
        \* lines 743-784: an integer or an integer range
        Integer ==
            Bind(ExtractInteger(tokens, base), LAMBDA integer :
                IF integer.ok THEN step(integer.first, integer.last, <<>>, integer.tokens)
                ELSE failed)
        \* lines 790-836: a character class
        Class ==
            Bind(MatchClass(tokens), LAMBDA class :
                IF class.ok /\ class.name \in DOMAIN CLASS_SELECTORS
                    THEN step(0, -1, CLASS_SELECTORS[class.name], class.tokens)
                    ELSE failed)
        \* lines 837-860: a raw string; without the closing suffix nothing
        \* happens and the loop goes on after the prefix
        Raw(raw) ==
            Bind(Drop(tokens, Len(raw.prefix)), LAMBDA opened :
            Bind(SearchSuffix(opened, raw.suffix), LAMBDA at :
                IF at = 0 THEN step(0, -1, <<>>, opened)
                ELSE Bind(Drop(opened, at + Len(raw.suffix) - 1), LAMBDA tail :
                     Bind(Take(opened, Len(opened) - (Len(raw.suffix) + Len(tail))), LAMBDA body :
                        IF AtSeparator(tail, 1) THEN step(0, -1, RawSelector(body), tail)
                        ELSE failed))))
    IN  IF tokens[1] \in HEX_CHARS THEN Integer
        ELSE IF Len(tokens) >= 2 /\ tokens[1] = "[" /\ tokens[2] = ":" THEN Class
        ELSE Bind(MatchRawPrefix(tokens), LAMBDA raw : IF raw.ok THEN Raw(raw) ELSE failed)

\* The values that tokens takes at line 741, one per iteration of the loop,
\* as indices into text: tokens is text from that index on.  from is the
\* index the loop condition starts at and iterations[i] is the iteration on
\* the tokens at index i.
RECURSIVE LoopStarts(_, _, _)
LoopStarts(text, iterations, from) ==
    IF SpanEnd(text, from, WS_CHARS) > Len(text) THEN <<>>
    ELSE IF iterations[SpanEnd(text, from, WS_CHARS)].status # "ok"
        THEN <<SpanEnd(text, from, WS_CHARS)>>
    ELSE <<SpanEnd(text, from, WS_CHARS)>>
             \o LoopStarts(text, iterations,
                           Len(text) - Len(iterations[SpanEnd(text, from, WS_CHARS)].tokens) + 1)

\* byte_selector(attribute, tokens, output) without its arguments attribute
\* and output: every assignment of the call and of its recursive calls is
\* output[index] = attribute, so the call is described by the indices it
\* assigns and by its status: "ok", "user_error" (the exit that user_error()
\* raises) or "IndexError" (the uncaught exception of line 789).
RECURSIVE byte_selector_indices(_)
byte_selector_indices(selector) ==
    Bind(MatchBaseGroup(selector), LAMBDA group :
    Bind(IF ~group.ok THEN 0
         ELSE IF group.prefix = <<>> THEN 10
         ELSE IF Len(group.prefix) = 2 THEN 16
         ELSE 8, LAMBDA base :
    Bind([i \in 1..Len(group.tokens) |->
             IF group.tokens[i] \in WS_CHARS THEN [status |-> "blank"]
             ELSE Iteration(Drop(group.tokens, i - 1), base)], LAMBDA iterations :
    Bind(LoopStarts(group.tokens, iterations, 1), LAMBDA starts :
    Bind([k \in 1..Len(starts) |->
             Bind(iterations[starts[k]], LAMBDA iteration :
                 IF iteration.status # "ok" THEN [status |-> iteration.status, indices |-> {}]
                 ELSE IF iteration.call # <<>> THEN byte_selector_indices(iteration.call)
                 ELSE AssignRange(iteration.first, iteration.last))], LAMBDA effects :
    Bind({k \in 1..Len(starts) : effects[k].status # "ok"}, LAMBDA stops :
    Bind(IF stops = {} THEN Len(starts) ELSE CHOOSE k \in stops : \A j \in stops : k <= j,
         LAMBDA last :
        [status |-> IF stops = {} THEN "ok" ELSE effects[last].status,
         indices |-> UNION {effects[k].indices : k \in 1..last}])))))))

\* byte_selector with an assignment that keeps the attribute a slot has.
byte_selector_keep(attribute, tokens, output) ==
    Bind(byte_selector_indices(tokens), LAMBDA call :
        [status |-> call.status,
         output |-> [index \in 0..(TABLE_SIZE - 1) |->
                        IF index \in call.indices /\ output[index] = None
                            THEN attribute ELSE output[index]]])

\* byte_selector(attribute, tokens, output): the status of the call and
\* output as the call left it.
byte_selector(attribute, tokens, output) ==
    Bind(byte_selector_indices(tokens), LAMBDA call :
        [status |-> call.status,
         output |-> [index \in 0..(TABLE_SIZE - 1) |->
                        IF index \in call.indices THEN attribute ELSE output[index]]])

\* The bytes that hold attribute in a table.
Selected(table, attribute) ==
    IF table = NoTable THEN {} ELSE {index \in DOMAIN table : table[index] = attribute}

----------------------------------------------------------------------------
(* Escape sequences and mapping arrays                                     *)

\* The entries of ByteDump.ANSI_ESCAPE for the attributes of the model;
\* the key "FOREGROUND.red" is the pair <<"FOREGROUND", "red">>.
ANSI_ESCAPE ==
    <<"FOREGROUND", "red">>        :> <<"ESC", "[", "3", "1", "m">> @@
    <<"FOREGROUND", "green">>      :> <<"ESC", "[", "3", "2", "m">> @@
    <<"FOREGROUND", "bright-red">> :> <<"ESC", "[", "1", ";", "3", "1", "m">> @@
    <<"FOREGROUND", "reset">>      :> <<>> @@
    <<"BACKGROUND", "red">>        :> <<"ESC", "[", "4", "1", "m">> @@
    <<"BACKGROUND", "green">>      :> <<"ESC", "[", "4", "2", "m">> @@
    <<"BACKGROUND", "bright-red">> :> <<"ESC", "[", "1", ";", "4", "1", "m">> @@
    <<"BACKGROUND", "reset">>      :> <<>> @@
    <<"RESET", "attributes">>      :> <<"ESC", "[", "0", "m">>

\* cls.ANSI_ESCAPE.get(key, "")
ANSI_ESCAPE_get(key) ==
    IF key \in DOMAIN ANSI_ESCAPE THEN ANSI_ESCAPE[key] ELSE <<>>

last_encoded_byte == 255

\* ASCII_TEXT_MAP: "." or the "\\uXXXX" text that initialize4_maps expands;
\* an entry is the text before the escape and the code point (-1: none).
ASCII_TEXT_MAP ==
    [index \in 0..255 |->
        IF index \in 32..126
            THEN [text |-> <<>>, codepoint |-> index]
            ELSE [text |-> <<".">>, codepoint |-> -1]]

\* The BYTE field mapping array that initialize4_maps builds (lines 1653-1668).
BuildByteMap(output) ==
    CASE output = "BINARY" ->
            [i \in 0..255 |-> FormatPadded(i, 2, HEX_LOWER_DIGITS, 8, "0")]
      [] output = "DECIMAL" ->
            [i \in 0..255 |-> FormatPadded(i, 10, HEX_LOWER_DIGITS, 3, " ")]
      [] output = "HEX-LOWER" ->
            [i \in 0..255 |-> FormatPadded(i, 16, HEX_LOWER_DIGITS, 2, "0")]
      [] output = "HEX-UPPER" ->
            [i \in 0..255 |-> FormatPadded(i, 16, HEX_UPPER_DIGITS, 2, "0")]
      [] output = "OCTAL" ->
            [i \in 0..255 |-> FormatPadded(i, 8, HEX_LOWER_DIGITS, 3, "0")]

\* "^(BYTE|TEXT)_(.+)$" on a registered key.
KeyField(key) == IF key \in {"BYTE_BACKGROUND", "BYTE_FOREGROUND"} THEN "BYTE" ELSE "TEXT"
KeyLayer(key) == IF key \in {"BYTE_BACKGROUND", "TEXT_BACKGROUND"} THEN "BACKGROUND" ELSE "FOREGROUND"

DecorateMapWithAny(field_map, byte_table, layer) ==
    IF byte_table = NoTable \/ field_map = NoTable THEN field_map
    ELSE [index \in DOMAIN field_map |->
             IF index <= last_encoded_byte /\ byte_table[index] # None
                 THEN ANSI_ESCAPE_get(<<layer, byte_table[index]>>)
                          \o field_map[index]
                          \o ANSI_ESCAPE_get(<<"RESET", "attributes">>)
                 ELSE field_map[index]]

\* The body of the loop of initialize5_attributes for one key (lines
\* 1724-1739): field_map with the attributes of byte_table applied.
DecorateMap(field_map, byte_table, layer) ==
    IF byte_table = NoTable \/ field_map = NoTable THEN field_map
    ELSE [index \in DOMAIN field_map |->
             IF index <= last_encoded_byte /\ byte_table[index] # None
                /\ Len(ANSI_ESCAPE_get(<<layer, byte_table[index]>>)) > 0
                 THEN ANSI_ESCAPE_get(<<layer, byte_table[index]>>)
                          \o field_map[index]
                          \o ANSI_ESCAPE_get(<<"RESET", "attributes">>)
                 ELSE field_map[index]]

\* initialize5_attributes with the keys visited in the given order: the
\* mapping array of a field after the loop over the registered keys.
RECURSIVE DecorateField(_, _, _, _)
DecorateField(field, field_map, tables, order) ==
    IF order = <<>> THEN field_map
    ELSE Bind(IF KeyField(Head(order)) = field
                  THEN DecorateMap(field_map, tables[Head(order)], KeyLayer(Head(order)))
                  ELSE field_map,
              LAMBDA decorated : DecorateField(field, decorated, tables, Tail(order)))

\* The orders in which a loop can visit the set registered_keys.
KeyOrders ==
    {order \in [1..Cardinality(registered_keys) -> registered_keys] :
        \A i, j \in DOMAIN order : i # j => order[i] # order[j]}

----------------------------------------------------------------------------
(* Fields and layout                                                       *)

\* The characters U+00A0 .. U+00FF, in code point order.
LATIN1 ==
    <<"U+00A0", "U+00A1", "U+00A2", "U+00A3", "U+00A4", "U+00A5", "U+00A6", "U+00A7",
      "U+00A8", "U+00A9", "U+00AA", "U+00AB", "U+00AC", "U+00AD", "U+00AE", "U+00AF",
      "U+00B0", "U+00B1", "U+00B2", "U+00B3", "U+00B4", "U+00B5", "U+00B6", "U+00B7",
      "U+00B8", "U+00B9", "U+00BA", "U+00BB", "U+00BC", "U+00BD", "U+00BE", "U+00BF",
      "U+00C0", "U+00C1", "U+00C2", "U+00C3", "U+00C4", "U+00C5", "U+00C6", "U+00C7",
      "U+00C8", "U+00C9", "U+00CA", "U+00CB", "U+00CC", "U+00CD", "U+00CE", "U+00CF",
      "U+00D0", "U+00D1", "U+00D2", "U+00D3", "U+00D4", "U+00D5", "U+00D6", "U+00D7",
      "U+00D8", "U+00D9", "U+00DA", "U+00DB", "U+00DC", "U+00DD", "U+00DE", "U+00DF",
      "U+00E0", "U+00E1", "U+00E2", "U+00E3", "U+00E4", "U+00E5", "U+00E6", "U+00E7",
      "U+00E8", "U+00E9", "U+00EA", "U+00EB", "U+00EC", "U+00ED", "U+00EE", "U+00EF",
      "U+00F0", "U+00F1", "U+00F2", "U+00F3", "U+00F4", "U+00F5", "U+00F6", "U+00F7",
      "U+00F8", "U+00F9", "U+00FA", "U+00FB", "U+00FC", "U+00FD", "U+00FE", "U+00FF">>

\* Python's chr() on the code points of the TEXT field mapping arrays.
unichr(codepoint) ==
    IF codepoint >= 160 THEN LATIN1[codepoint - 159] ELSE chr(codepoint)

\* The values sys.stdout.encoding takes in the model, and whether
\* chr(codepoint).encode(encoding) succeeds for a code point below U+0100.
Encodings == {"ascii", "iso8859-15", "utf-8"}

Encodable(codepoint, encoding) ==
    CASE encoding = "ascii"      -> codepoint < 128
      [] encoding = "iso8859-15" -> codepoint \notin {164, 166, 168, 180, 184, 188, 189, 190}
      [] encoding = "utf-8"      -> TRUE

\* The TEXT field mapping arrays as the class declares them: an entry is the
\* text before a trailing "\\uXXXX" escape and the escape's code point (-1
\* when the entry has no escape).
Literal(text) == [text |-> text, codepoint |-> -1]
Escaped(text, codepoint) == [text |-> text, codepoint |-> codepoint]

UNICODE_TEXT_MAP ==
    [index \in 0..255 |->
        IF index \in 32..126 \/ index \in 160..255
            THEN Escaped(<<>>, index)
            ELSE Literal(<<".">>)]

CARET_TEXT_MAP_of_C0 ==
    [index \in 0..255 |->
        CASE index \in 0..31    -> Escaped(<<"^">>, index + 64)
          [] index \in 32..126  -> Escaped(<<" ">>, index)
          [] index = 127        -> Escaped(<<"^">>, 63)
          [] index \in 128..159 -> Escaped(<<"^">>, index - 64)
          [] index \in 160..255 -> Escaped(<<" ">>, index)]

CARET_TEXT_MAP ==
    [index \in 0..255 |->
        CASE index \in 0..31    -> Escaped(<<"^">>, index + 64)
          [] index \in 32..126  -> Escaped(<<" ">>, index)
          [] index = 127        -> Escaped(<<"^">>, 63)
          [] index \in 128..159 -> Escaped(<<"^">>, index + 64)
          [] index \in 160..255 -> Escaped(<<" ">>, index)]

CARET_ESCAPE_TEXT_MAP ==
    [index \in 0..255 |->
        CASE index = 0   -> Literal(<<"\\", "0">>)
          [] index = 7   -> Literal(<<"\\", "a">>)
          [] index = 8   -> Literal(<<"\\", "b">>)
          [] index = 9   -> Literal(<<"\\", "t">>)
          [] index = 10  -> Literal(<<"\\", "n">>)
          [] index = 11  -> Literal(<<"\\", "v">>)
          [] index = 12  -> Literal(<<"\\", "f">>)
          [] index = 13  -> Literal(<<"\\", "r">>)
          [] index = 127 -> Literal(<<"\\", "?">>)
          [] OTHER       -> CARET_TEXT_MAP[index]]

\* getattr(cls, cls.TEXT_map)
TextMapNamed(name) ==
    CASE name = "ASCII_TEXT_MAP"        -> ASCII_TEXT_MAP
      [] name = "UNICODE_TEXT_MAP"      -> UNICODE_TEXT_MAP
      [] name = "CARET_TEXT_MAP"        -> CARET_TEXT_MAP
      [] name = "CARET_ESCAPE_TEXT_MAP" -> CARET_ESCAPE_TEXT_MAP

\* The class variables of ByteDump that the layout options set and
\* initialize() derives, with the values of the class declaration; empty
\* text is the empty sequence.
ADDR_format_width_default == <<"6">>
ADDR_format_width_default_xxd == <<"0", "8">>
DUMP_layout_narrow == "NARROW"
DUMP_layout_default == "WIDE"
DUMP_record_length_limit == 4096

ClassDefaults ==
    [DUMP_field_flags |-> {}, DUMP_input_start |-> 0, DUMP_layout |-> "WIDE",
     DUMP_output_start |-> 0, DUMP_record_length |-> 16, DUMP_record_separator |-> <<"\n">>,
     ADDR_output |-> "HEX-LOWER", ADDR_digits |-> 0, ADDR_field_separator |-> <<" ">>,
     ADDR_field_separator_size |-> 1, ADDR_format |-> <<>>, ADDR_format_width |-> <<>>,
     ADDR_padding |-> " ", ADDR_prefix |-> <<>>, ADDR_prefix_size |-> 0,
     ADDR_suffix |-> <<":">>, ADDR_suffix_size |-> 1,
     BYTE_digits_per_octet |-> -1, BYTE_field_separator |-> <<" ", " ">>,
     BYTE_field_width |-> 0, BYTE_indent |-> <<>>, BYTE_map |-> "", BYTE_prefix |-> <<>>,
     BYTE_prefix_size |-> 0, BYTE_separator |-> <<" ">>, BYTE_separator_size |-> 1,
     BYTE_suffix |-> <<>>, BYTE_suffix_size |-> 0,
     TEXT_chars_per_octet |-> -1, TEXT_indent |-> <<>>, TEXT_map |-> "",
     TEXT_prefix |-> <<>>, TEXT_prefix_size |-> 0, TEXT_separator |-> <<>>,
     TEXT_separator_size |-> 0, TEXT_suffix |-> <<>>, TEXT_suffix_size |-> 0,
     TEXT_unexpanded_string |-> <<>>]

\* The class as the initialize methods see it: the class variables, the two
\* output styles, the mapping arrays and how the method ended.
ClassOf(settings, byte_output, text_output) ==
    [class |-> settings, BYTE_output |-> byte_output, TEXT_output |-> text_output,
     status |-> "ok"]

\* f"{'':>{padding}}"
SpacesButOne(padding) == [i \in 1..(padding - 1) |-> " "]

Spaces(padding) == [i \in 1..padding |-> " "]

\* The ADDR_output cases of initialize1_fields (lines 1353-1387).
AddrFields(cls) ==
    LET c == cls.class
        width(default) == IF Len(c.ADDR_format_width) > 0 THEN c.ADDR_format_width ELSE default
        numbered(default, conversion) ==
            [c EXCEPT !.ADDR_format_width = width(default),
                      !.ADDR_format = <<"%">> \o width(default) \o <<conversion>>,
                      !.ADDR_digits = int(width(default), 10)]
    IN  CASE c.ADDR_output = "DECIMAL" ->
                [cls EXCEPT !.class = numbered(ADDR_format_width_default, "d")]
          [] c.ADDR_output = "EMPTY" ->
                [cls EXCEPT !.class = [c EXCEPT !.ADDR_format_width = <<"0">>,
                                                !.ADDR_format = <<>>,
                                                !.ADDR_digits = 0,
                                                !.DUMP_field_flags = @ \ {"ADDR"}]]
          [] c.ADDR_output = "HEX-LOWER" ->
                [cls EXCEPT !.class = numbered(ADDR_format_width_default, "x")]
          [] c.ADDR_output = "HEX-UPPER" ->
                [cls EXCEPT !.class = numbered(ADDR_format_width_default, "X")]
          [] c.ADDR_output = "OCTAL" ->
                [cls EXCEPT !.class = numbered(ADDR_format_width_default, "o")]
          [] c.ADDR_output = "XXD" ->
                [cls EXCEPT !.class = [numbered(ADDR_format_width_default_xxd, "x")
                                           EXCEPT !.ADDR_output = "HEX-LOWER"]]

\* Lines 1394-1402: the sizes of the ADDR strings and the padding character.
AddrSizes(cls) ==
    [cls EXCEPT !.class = [@ EXCEPT !.ADDR_prefix_size = Len(cls.class.ADDR_prefix),
                                    !.ADDR_suffix_size = Len(cls.class.ADDR_suffix),
                                    !.ADDR_field_separator_size = Len(cls.class.ADDR_field_separator),
                                    !.ADDR_padding = IF Len(cls.class.ADDR_format_width) > 0
                                                        /\ cls.class.ADDR_format_width[1] = "0"
                                                         THEN "0" ELSE " "]]

\* The TEXT_output cases of initialize1_fields and the sizes of the TEXT
\* strings (lines 1404-1441).
TextFields(cls) ==
    LET c == cls.class
        mapped(name, chars, unexpanded) ==
            [c EXCEPT !.TEXT_map = name, !.TEXT_chars_per_octet = chars,
                      !.TEXT_unexpanded_string = unexpanded]
        sized(class) ==
            [class EXCEPT !.TEXT_prefix_size = Len(class.TEXT_prefix),
                          !.TEXT_suffix_size = Len(class.TEXT_suffix),
                          !.TEXT_separator_size = Len(class.TEXT_separator)]
    IN  CASE cls.TEXT_output = "ASCII" ->
                [cls EXCEPT !.class = sized(mapped("ASCII_TEXT_MAP", 1, <<"?">>))]
          [] cls.TEXT_output = "CARET" ->
                [cls EXCEPT !.class = sized(mapped("CARET_TEXT_MAP", 2, <<"?", "?">>))]
          [] cls.TEXT_output = "CARET_ESCAPE" ->
                [cls EXCEPT !.class = sized(mapped("CARET_ESCAPE_TEXT_MAP", 2, <<"?", "?">>))]
          [] cls.TEXT_output = "EMPTY" ->
                [cls EXCEPT !.class = sized([mapped("", 0, <<>>)
                                                 EXCEPT !.BYTE_field_separator = <<>>,
                                                        !.DUMP_layout = DUMP_layout_default,
                                                        !.DUMP_field_flags = @ \ {"TEXT"}])]
          [] cls.TEXT_output = "UNICODE" ->
                [cls EXCEPT !.class = sized(mapped("UNICODE_TEXT_MAP", 1, <<"?">>))]
          [] cls.TEXT_output = "XXD" ->
                [cls EXCEPT !.class = sized(mapped("ASCII_TEXT_MAP", 1, <<"?">>)),
                            !.TEXT_output = "ASCII"]

ByteFieldsOfOneDigit(cls) ==
    LET c == cls.class
        mapped(digits) ==
            [c EXCEPT !.BYTE_map = "byte_map", !.BYTE_digits_per_octet = digits]
        sized(class) ==
            [class EXCEPT !.BYTE_prefix_size = Len(class.BYTE_prefix),
                          !.BYTE_suffix_size = Len(class.BYTE_suffix),
                          !.BYTE_separator_size = Len(class.BYTE_separator)]
        checked(result) ==
            IF DUMP_record_length_limit > 0
               /\ result.class.DUMP_record_length > DUMP_record_length_limit
                THEN [result EXCEPT !.status = "user_error"]
                ELSE result
    IN  CASE cls.BYTE_output = "BINARY" ->
                checked([cls EXCEPT !.class = sized(mapped(8))])
          [] cls.BYTE_output = "DECIMAL" ->
                checked([cls EXCEPT !.class = sized(mapped(3))])
          [] cls.BYTE_output = "EMPTY" ->
                IF cls.TEXT_output # "EMPTY"
                    THEN checked([cls EXCEPT !.class =
                                      sized([c EXCEPT !.BYTE_map = "",
                                                      !.BYTE_digits_per_octet = 0,
                                                      !.DUMP_layout = DUMP_layout_default,
                                                      !.DUMP_field_flags = @ \ {"BYTE"}])])
                    ELSE [cls EXCEPT !.status = "user_error"]
          [] cls.BYTE_output = "HEX-LOWER" ->
                checked([cls EXCEPT !.class = sized(mapped(1))])
          [] cls.BYTE_output = "HEX-UPPER" ->
                checked([cls EXCEPT !.class = sized(mapped(2))])
          [] cls.BYTE_output = "OCTAL" ->
                checked([cls EXCEPT !.class = sized(mapped(3))])
          [] cls.BYTE_output = "XXD" ->
                checked([cls EXCEPT !.class = sized(mapped(2)), !.BYTE_output = "HEX-LOWER"])

\* The BYTE_output cases of initialize1_fields, the sizes of the BYTE strings
\* and the record length check (lines 1443-1497).
ByteFields(cls) ==
    LET c == cls.class
        mapped(digits) ==
            [c EXCEPT !.BYTE_map = "byte_map", !.BYTE_digits_per_octet = digits]
        sized(class) ==
            [class EXCEPT !.BYTE_prefix_size = Len(class.BYTE_prefix),
                          !.BYTE_suffix_size = Len(class.BYTE_suffix),
                          !.BYTE_separator_size = Len(class.BYTE_separator)]
        checked(result) ==
            IF DUMP_record_length_limit > 0
               /\ result.class.DUMP_record_length > DUMP_record_length_limit
                THEN [result EXCEPT !.status = "user_error"]
                ELSE result
    IN  CASE cls.BYTE_output = "BINARY" ->
                checked([cls EXCEPT !.class = sized(mapped(8))])
          [] cls.BYTE_output = "DECIMAL" ->
                checked([cls EXCEPT !.class = sized(mapped(3))])
          [] cls.BYTE_output = "EMPTY" ->
                IF cls.TEXT_output # "EMPTY"
                    THEN checked([cls EXCEPT !.class =
                                      sized([c EXCEPT !.BYTE_map = "",
                                                      !.BYTE_digits_per_octet = 0,
                                                      !.DUMP_layout = DUMP_layout_default,
                                                      !.DUMP_field_flags = @ \ {"BYTE"}])])
                    ELSE [cls EXCEPT !.status = "user_error"]
          [] cls.BYTE_output = "HEX-LOWER" ->
                checked([cls EXCEPT !.class = sized(mapped(2))])
          [] cls.BYTE_output = "HEX-UPPER" ->
                checked([cls EXCEPT !.class = sized(mapped(2))])
          [] cls.BYTE_output = "OCTAL" ->
                checked([cls EXCEPT !.class = sized(mapped(3))])
          [] cls.BYTE_output = "XXD" ->
                checked([cls EXCEPT !.class = sized(mapped(2)), !.BYTE_output = "HEX-LOWER"])

\* initialize1_fields: every field starts enabled, then the ADDR, TEXT and
\* BYTE styles are settled in that order.
initialize1_fields(cls) ==
    Bind([cls EXCEPT !.class.DUMP_field_flags = {"ADDR", "BYTE", "TEXT"}], LAMBDA started :
    Bind(AddrSizes(AddrFields(started)), LAMBDA addr :
    Bind(TextFields(addr), LAMBDA text : ByteFields(text))))

initialize2_field_widths_of_any(cls) ==
    LET c == cls.class
    IN  [cls EXCEPT !.class.BYTE_field_width =
            c.DUMP_record_length * (c.BYTE_digits_per_octet + c.BYTE_separator_size)
                - c.BYTE_separator_size]

\* initialize2_field_widths (lines 1500-1521).
initialize2_field_widths(cls) ==
    LET c == cls.class
    IN  [cls EXCEPT !.class.BYTE_field_width =
            IF c.DUMP_record_length > 0
               /\ ~(cls.BYTE_output = "EMPTY" \/ cls.TEXT_output = "EMPTY"
                    \/ c.DUMP_layout = "NARROW")
                THEN c.DUMP_record_length * (c.BYTE_digits_per_octet + c.BYTE_separator_size)
                         - c.BYTE_separator_size
                ELSE 0]

\* NarrowPadding without the padding of the indents and the separators.
NarrowSeparatorOnly(c) == [c EXCEPT !.BYTE_field_separator = <<"\n">>]

\* The NARROW block of initialize3_layout up to the prefix step (lines
\* 1546-1588): the field separator, the indents and the separators.
NarrowPadding(c) ==
    Bind([c EXCEPT !.BYTE_field_separator = <<"\n">>], LAMBDA separated :
    Bind(IF separated.BYTE_prefix_size - separated.TEXT_prefix_size > 0
             THEN [separated EXCEPT !.TEXT_indent =
                       @ \o Spaces(separated.BYTE_prefix_size - separated.TEXT_prefix_size)]
         ELSE IF separated.BYTE_prefix_size - separated.TEXT_prefix_size < 0
             THEN [separated EXCEPT !.BYTE_indent =
                       @ \o Spaces(separated.TEXT_prefix_size - separated.BYTE_prefix_size)]
         ELSE separated, LAMBDA indented :
    LET padding == indented.BYTE_digits_per_octet - indented.TEXT_chars_per_octet
                       + indented.BYTE_separator_size - indented.TEXT_separator_size
    IN  IF padding > 0
            THEN [indented EXCEPT !.TEXT_separator = @ \o Spaces(padding),
                                  !.TEXT_separator_size = Len(indented.TEXT_separator) + padding]
        ELSE IF padding < 0
            THEN [indented EXCEPT !.BYTE_separator = @ \o Spaces(-padding),
                                  !.BYTE_separator_size = Len(indented.BYTE_separator) - padding]
        ELSE indented))

\* initialize3_layout (lines 1523-1608).
initialize3_layout(cls) ==
    IF cls.class.DUMP_layout = "NARROW"
        THEN Bind(NarrowPadding(cls.class), LAMBDA padded :
             LET padding == padded.BYTE_digits_per_octet - padded.TEXT_chars_per_octet
                 address == padded.ADDR_prefix_size + padded.ADDR_digits
                                + padded.ADDR_suffix_size + padded.ADDR_field_separator_size
             IN  IF padding < 0
                     THEN [cls EXCEPT !.class = padded, !.status = "internal_error"]
                     ELSE Bind(IF padding > 0
                                   THEN [padded EXCEPT !.TEXT_prefix = @ \o Spaces(padding),
                                                       !.TEXT_prefix_size = Len(padded.TEXT_prefix) + padding]
                                   ELSE padded, LAMBDA prefixed :
                          [cls EXCEPT !.class =
                              IF padded.ADDR_output # "EMPTY" /\ address > 0
                                  THEN [prefixed EXCEPT !.TEXT_indent = @ \o Spaces(address)]
                                  ELSE prefixed]))
    ELSE IF cls.class.DUMP_layout # "WIDE"
        THEN [cls EXCEPT !.status = "internal_error"]
    ELSE cls

\* BuildTextMap when the text before the escape is kept in front of the
\* marker.
BuildTextMapKeepText(name, encoding, unexpanded) ==
    [index \in 0..255 |->
        LET element == TextMapNamed(name)[index]
        IN  IF element.codepoint < 0 THEN element.text
            ELSE IF Encodable(element.codepoint, encoding)
                THEN element.text \o <<unichr(element.codepoint)>>
            ELSE element.text \o unexpanded]

\* The loop of initialize4_maps over the TEXT field mapping array (lines
\* 1686-1696): an entry that ends with an escape becomes the text before it
\* and the character, or TEXT_unexpanded_string when the character does not
\* encode.
BuildTextMap(name, encoding, unexpanded) ==
    [index \in 0..255 |->
        LET element == TextMapNamed(name)[index]
        IN  IF element.codepoint < 0 THEN element.text
            ELSE IF Encodable(element.codepoint, encoding)
                THEN element.text \o <<unichr(element.codepoint)>>
            ELSE unexpanded]

\* initialize4_maps: the mapping arrays of the enabled fields, None for the
\* others.
initialize4_maps(cls, encoding) ==
    [byte_map |-> IF cls.class.BYTE_map # "" THEN BuildByteMap(cls.BYTE_output) ELSE NoTable,
     text_map |-> IF cls.class.TEXT_map # ""
                      THEN BuildTextMap(cls.class.TEXT_map, encoding,
                                        cls.class.TEXT_unexpanded_string)
                      ELSE NoTable]

\* Python's int(text, 0) on a text the options' regular expression
\* "([1-9][0-9]*|0[xX][0-9a-fA-F]+|0[0-7]*)" matched: a decimal, a
\* hexadecimal or a run of zeros; any other text with a leading zero is a
\* ValueError.
int0(text) ==
    IF text[1] \in NZ_CHARS THEN [status |-> "ok", value |-> int(text, 10)]
    ELSE IF Len(text) > 1 /\ text[2] \in {"x", "X"}
        THEN [status |-> "ok", value |-> int(Drop(text, 2), 16)]
    ELSE IF \A i \in DOMAIN text : text[i] = "0" THEN [status |-> "ok", value |-> 0]
    ELSE [status |-> "ValueError", value |-> 0]

\* Python's format % n for the formats initialize1_fields builds: "%",
\* an optional "0" flag, the width and the conversion.
PercentFormat(format, n) ==
    LET conversion == format[Len(format)]
        spec == SubSeq(format, 2, Len(format) - 1)
        zero == Len(spec) > 0 /\ spec[1] = "0"
        base == CASE conversion = "d" -> 10
                  [] conversion = "o" -> 8
                  [] conversion \in {"x", "X"} -> 16
    IN  FormatPadded(n, base,
                     IF conversion = "X" THEN HEX_UPPER_DIGITS ELSE HEX_LOWER_DIGITS,
                     int(spec, 10), IF zero THEN "0" ELSE " ")

----------------------------------------------------------------------------
(* The program                                                             *)

VARIABLES
    args,               \* the command line options: target, attribute, selector
    next_idx,           \* options(): the index of the next option, from 1
    pc,                 \* main(): "options", "initialize", "arguments", "exit",
                        \* the dump method that is running, "done"
    status,             \* "running", or how the program ended
    attribute_tables,   \* ByteDump.attribute_tables, a table or None per key
    BYTE_output,        \* ByteDump.BYTE_output
    TEXT_output,        \* ByteDump.TEXT_output
    byte_map,           \* ByteDump.byte_map
    text_map,           \* ByteDump.text_map
    settings,           \* the other class variables of ByteDump
    encoding,           \* sys.stdout.encoding
    input,              \* the bytes of the input file
    offset,             \* the position of input_stream in the input file
    reads,              \* the buffers input_stream.read returned, in order
    address,            \* the local variable address of the dump methods
    output,             \* the characters written to sys.stdout
    output_text,        \* the StringIO buffer of dump_all_single_record
    flushed,            \* output.flush(): how much was written at each call
    called              \* the methods main() reached so far, in call order

\* The variables the dump methods change and the ones they only read.
dump_vars == <<offset, reads, address, output, output_text, flushed>>
file_vars == <<encoding, input>>

vars == <<args, next_idx, pc, status, attribute_tables, BYTE_output, TEXT_output,
          byte_map, text_map, settings, file_vars, dump_vars, called>>

\* The selector field of an option whose argument has no ":<selector>" part
\* (group 3 of the option's regular expression is None), and the selector
\* such an option uses.
Omitted == <<"omitted">>
DefaultSelector == <<"0", "x", "(", "0", "0", "-", "F", "F", ")">>

\* The layer and the tables, in call order, of the six attribute options.
OptionLayer(target) ==
    IF target \in {"--background=", "--byte-background=", "--text-background="}
        THEN "BACKGROUND" ELSE "FOREGROUND"

OptionKeys(target) ==
    CASE target = "--background="       -> <<"BYTE_BACKGROUND", "TEXT_BACKGROUND">>
      [] target = "--byte-background="  -> <<"BYTE_BACKGROUND">>
      [] target = "--byte-foreground="  -> <<"BYTE_FOREGROUND">>
      [] target = "--foreground="       -> <<"BYTE_FOREGROUND", "TEXT_FOREGROUND">>
      [] target = "--text-background="  -> <<"TEXT_BACKGROUND">>
      [] target = "--text-foreground="  -> <<"TEXT_FOREGROUND">>

\* The byte_selector calls of one option, on the tables of keys in order; a
\* call that does not return normally ends the option.
RECURSIVE ApplySelector(_, _, _, _)
ApplySelector(attribute, selector, keys, tables) ==
    IF keys = <<>> THEN [status |-> "ok", tables |-> tables, calls |-> <<>>]
    ELSE Bind(byte_selector(attribute, selector, get_table(tables, Head(keys))), LAMBDA call :
         Bind([tables EXCEPT ![Head(keys)] = call.output], LAMBDA written :
             IF call.status # "ok"
                 THEN [status |-> call.status, tables |-> written,
                       calls |-> <<"get_table", "byte_selector">>]
                 ELSE Bind(ApplySelector(attribute, selector, Tail(keys), written), LAMBDA rest :
                      [rest EXCEPT !.calls = <<"get_table", "byte_selector">> \o @])))

\* The state after setup(): the class defaults and four registered keys
\* without a table.
InitClass ==
    /\ next_idx = 1
    /\ pc = "options"
    /\ status = "running"
    /\ attribute_tables = [key \in registered_keys |-> NoTable]
    /\ BYTE_output = "HEX-LOWER"
    /\ TEXT_output = "ASCII"
    /\ byte_map = NoTable
    /\ text_map = NoTable
    /\ settings = ClassDefaults
    /\ offset = 0
    /\ reads = <<>>
    /\ address = 0
    /\ output = <<>>
    /\ output_text = <<>>
    /\ flushed = <<>>
    /\ called = <<>>

\* The program started on an empty input file with a terminal that encodes
\* every character.
InitProgram ==
    /\ InitClass
    /\ encoding = "utf-8"
    /\ input = <<>>

\* One of the cases "--background=", ..., "--text-foreground=" of options().
AttributeOption(target) ==
    /\ pc = "options"
    /\ next_idx <= Len(args)
    /\ args[next_idx].target = target
    /\ LET arg == args[next_idx]
           selector == IF arg.selector = Omitted THEN DefaultSelector ELSE arg.selector
       IN  IF <<OptionLayer(target), arg.attribute>> \notin DOMAIN ANSI_ESCAPE
               THEN /\ pc' = "exit"
                    /\ status' = "user_error"
                    /\ UNCHANGED <<next_idx, attribute_tables, called>>
               ELSE \E applied \in {ApplySelector(arg.attribute, selector, OptionKeys(target),
                                                    attribute_tables)} :
                    /\ attribute_tables' = applied.tables
                    /\ called' = called \o applied.calls
                    /\ IF applied.status = "ok"
                           THEN /\ next_idx' = next_idx + 1
                                /\ UNCHANGED <<pc, status>>
                           ELSE /\ pc' = "exit"
                                /\ status' = applied.status
                                /\ UNCHANGED next_idx
    /\ UNCHANGED <<args, BYTE_output, TEXT_output, byte_map, text_map, settings,
                   file_vars, dump_vars>>

Option_background == AttributeOption("--background=")
Option_byte_background == AttributeOption("--byte-background=")
Option_byte_foreground == AttributeOption("--byte-foreground=")
Option_foreground == AttributeOption("--foreground=")
Option_text_background == AttributeOption("--text-background=")
Option_text_foreground == AttributeOption("--text-foreground=")

\* The style words of "--addr=", "--byte=" and "--text=" and the styles
\* they stand for.
AddrStyles ==
    [decimal |-> "DECIMAL", empty |-> "EMPTY", hex |-> "HEX-LOWER", HEX |-> "HEX-UPPER",
     octal |-> "OCTAL", xxd |-> "XXD"]

ByteStyles ==
    [binary |-> "BINARY", decimal |-> "DECIMAL", empty |-> "EMPTY", hex |-> "HEX-LOWER",
     HEX |-> "HEX-UPPER", octal |-> "OCTAL", xxd |-> "XXD"]

TextStyles ==
    [ascii |-> "ASCII", caret |-> "CARET", empty |-> "EMPTY", escape |-> "CARET_ESCAPE",
     unicode |-> "UNICODE", xxd |-> "XXD"]

\* printable_user_string(arg) for a text of the model's characters.
printable_user_string(arg) ==
    \A i \in DOMAIN arg : arg[i] \in {ASCII[k] : k \in DOMAIN ASCII}

\* How a case of options() ends: the loop moves to the next option, or an
\* error leaves the program.
NextOption ==
    /\ next_idx' = next_idx + 1
    /\ UNCHANGED <<pc, status>>

LeaveLater(how) ==
    /\ status' = how
    /\ next_idx' = next_idx + 1
    /\ UNCHANGED pc

Leave(how) ==
    /\ pc' = "exit"
    /\ status' = how
    /\ UNCHANGED next_idx

AtOption(target) ==
    /\ pc = "options"
    /\ next_idx <= Len(args)
    /\ args[next_idx].target = target

\* The case "--addr=" of options() (lines 1813-1838): attribute is the style
\* word and selector the width of the option's argument.
Option_addr ==
    /\ AtOption("--addr=")
    /\ LET arg == args[next_idx]
       IN  IF arg.attribute \in DOMAIN AddrStyles
               THEN /\ settings' = [settings EXCEPT
                           !.ADDR_output = AddrStyles[arg.attribute],
                           !.ADDR_format_width =
                               IF arg.selector # Omitted THEN arg.selector ELSE @]
                    /\ NextOption
               ELSE /\ Leave("user_error")
                    /\ UNCHANGED settings
    /\ UNCHANGED <<called, args, attribute_tables, BYTE_output, TEXT_output, byte_map, text_map,
                   file_vars, dump_vars>>

\* The cases "--addr-prefix=", ..., "--text-suffix=" of options() that store
\* a printable string in a class variable: selector is the option's
\* argument.
StringOption(target, variable) ==
    /\ AtOption(target)
    /\ IF printable_user_string(args[next_idx].selector)
           THEN /\ settings' = [settings EXCEPT ![variable] = args[next_idx].selector]
                /\ NextOption
           ELSE /\ Leave("user_error")
                /\ UNCHANGED settings
    /\ UNCHANGED <<called, args, attribute_tables, BYTE_output, TEXT_output, byte_map, text_map,
                   file_vars, dump_vars>>

Option_addr_prefix == StringOption("--addr-prefix=", "ADDR_prefix")
Option_byte_prefix == StringOption("--byte-prefix=", "BYTE_prefix")
Option_byte_separator == StringOption("--byte-separator=", "BYTE_separator")
Option_byte_suffix == StringOption("--byte-suffix=", "BYTE_suffix")
Option_text_prefix == StringOption("--text-prefix=", "TEXT_prefix")
Option_text_suffix == StringOption("--text-suffix=", "TEXT_suffix")

\* The cases "--byte=" and "--text=" of options() (lines 1863-1897 and
\* 2027-2057): attribute is the style word and selector the length of the
\* option's argument; int(length, 0) can raise a ValueError nothing catches.
Option_byte ==
    /\ AtOption("--byte=")
    /\ LET arg == args[next_idx]
       IN  IF arg.attribute \notin DOMAIN ByteStyles
               THEN /\ Leave("user_error")
                    /\ UNCHANGED <<settings, BYTE_output>>
               ELSE /\ BYTE_output' = ByteStyles[arg.attribute]
                    /\ IF arg.selector = Omitted
                           THEN /\ NextOption
                                /\ UNCHANGED settings
                           ELSE \E length \in {int0(arg.selector)} :
                                   IF length.status = "ok"
                                       THEN /\ settings' = [settings EXCEPT
                                                   !.DUMP_record_length = length.value]
                                            /\ NextOption
                                       ELSE /\ Leave(length.status)
                                            /\ UNCHANGED settings
    /\ UNCHANGED <<called, args, attribute_tables, TEXT_output, byte_map, text_map,
                   file_vars, dump_vars>>

Option_text ==
    /\ AtOption("--text=")
    /\ LET arg == args[next_idx]
       IN  IF arg.attribute \notin DOMAIN TextStyles
               THEN /\ Leave("user_error")
                    /\ UNCHANGED <<settings, TEXT_output>>
               ELSE /\ TEXT_output' = TextStyles[arg.attribute]
                    /\ IF arg.selector = Omitted
                           THEN /\ NextOption
                                /\ UNCHANGED settings
                           ELSE \E length \in {int0(arg.selector)} :
                                   IF length.status = "ok"
                                       THEN /\ settings' = [settings EXCEPT
                                                   !.DUMP_record_length = length.value]
                                            /\ NextOption
                                       ELSE /\ Leave(length.status)
                                            /\ UNCHANGED settings
    /\ UNCHANGED <<called, args, attribute_tables, BYTE_output, byte_map, text_map,
                   file_vars, dump_vars>>

\* The case "--length=" of options() (lines 1977-1981): selector is the
\* length.
Option_length ==
    /\ AtOption("--length=")
    /\ \E length \in {int0(args[next_idx].selector)} :
          IF length.status = "ok"
              THEN /\ settings' = [settings EXCEPT !.DUMP_record_length = length.value]
                   /\ NextOption
              ELSE /\ Leave(length.status)
                   /\ UNCHANGED settings
    /\ UNCHANGED <<called, args, attribute_tables, BYTE_output, TEXT_output, byte_map, text_map,
                   file_vars, dump_vars>>

\* The case "--start=" of options() (lines 2016-2024): selector is the
\* argument, <address> or <address>:<output-address>.
Option_start ==
    /\ AtOption("--start=")
    /\ LET optarg == args[next_idx].selector
           colons == {i \in DOMAIN optarg : optarg[i] = ":"}
           colon == CHOOSE i \in colons : \A j \in colons : i <= j
       IN  \E input_start \in {int0(IF colons = {} THEN optarg ELSE Take(optarg, colon - 1))} :
           \E output_start \in {IF colons = {} THEN input_start
                                 ELSE int0(Drop(optarg, colon))} :
              IF input_start.status # "ok"
                  THEN /\ Leave(input_start.status)
                       /\ UNCHANGED settings
              ELSE IF output_start.status # "ok"
                  THEN /\ Leave(output_start.status)
                       /\ settings' = [settings EXCEPT
                                           !.DUMP_input_start = input_start.value]
              ELSE /\ settings' = [settings EXCEPT
                                       !.DUMP_input_start = input_start.value,
                                       !.DUMP_output_start = output_start.value]
                   /\ NextOption
    /\ UNCHANGED <<called, args, attribute_tables, BYTE_output, TEXT_output, byte_map, text_map,
                   file_vars, dump_vars>>

\* The cases "--narrow" and "--wide" of options() (lines 1993-1994 and
\* 2097-2098).
LayoutOption(target, layout) ==
    /\ AtOption(target)
    /\ settings' = [settings EXCEPT !.DUMP_layout = layout]
    /\ NextOption
    /\ UNCHANGED <<called, args, attribute_tables, BYTE_output, TEXT_output, byte_map, text_map,
                   file_vars, dump_vars>>

Option_narrow == LayoutOption("--narrow", "NARROW")
Option_wide == LayoutOption("--wide", "WIDE")

\* options() leaves its loop: cls.arguments_consumed = next_idx.
OptionsDone ==
    /\ pc = "options"
    /\ next_idx > Len(args)
    /\ pc' = "initialize"
    /\ UNCHANGED <<called, args, next_idx, status, attribute_tables, BYTE_output, TEXT_output,
                   byte_map, text_map, settings, file_vars, dump_vars>>

\* initialize(): initialize1_fields, initialize2_field_widths and
\* initialize3_layout settle the class variables, initialize4_maps builds
\* the mapping arrays and initialize5_attributes decorates them, visiting
\* the keys in some order; an error of a step ends the program there.
Initialize ==
    /\ pc = "initialize"
    /\ \E fields \in {initialize1_fields(ClassOf(settings, BYTE_output, TEXT_output))} :
       \E layout \in {IF fields.status = "ok"
                          THEN initialize3_layout(initialize2_field_widths(fields))
                          ELSE fields} :
          /\ settings' = layout.class
          /\ BYTE_output' = layout.BYTE_output
          /\ TEXT_output' = layout.TEXT_output
          /\ called' = called
                 \o <<"initialize1_fields">>
                 \o (IF fields.status = "ok"
                         THEN <<"initialize2_field_widths", "initialize3_layout">>
                         ELSE <<>>)
                 \o (IF layout.status = "ok"
                         THEN <<"initialize4_maps", "initialize5_attributes">>
                         ELSE <<>>)
          /\ IF layout.status = "ok"
                 THEN /\ \E maps \in {initialize4_maps(layout, encoding)} :
                         \E order \in KeyOrders :
                            /\ byte_map' = DecorateField("BYTE", maps.byte_map,
                                                         attribute_tables, order)
                            /\ text_map' = DecorateField("TEXT", maps.text_map,
                                                         attribute_tables, order)
                      /\ pc' = "arguments"
                      /\ UNCHANGED status
                 ELSE /\ pc' = "exit"
                      /\ status' = layout.status
                      /\ UNCHANGED <<byte_map, text_map>>
    /\ UNCHANGED <<args, next_idx, attribute_tables, file_vars, dump_vars>>

flush_nothing(written) == flushed

\* output.flush() after the loop of a dump method: what was written so far
\* leaves the buffer of the output.
flush(written) == Append(flushed, Len(written))

\* Read when it returns one byte more than it was asked for.
ReadOneMore(size) ==
    SubSeq(input, offset + 1,
           IF offset + size + 1 < Len(input) THEN offset + size + 1 ELSE Len(input))

\* input_stream.read(size) on a buffered stream: the next size bytes of
\* the file, fewer at its end.
Read(size) ==
    SubSeq(input, offset + 1, IF offset + size < Len(input) THEN offset + size ELSE Len(input))

\* separator.join([field_map[b] for b in buffer])
JoinMapped(field_map, buffer, separator) ==
    Join([i \in 1..Len(buffer) |-> field_map[buffer[i]]], separator)

\* The address the dump methods write: addr_prefix, addr_format % address
\* and addr_suffix.
AddressText(class, at) ==
    class.ADDR_prefix \o PercentFormat(class.ADDR_format, at)
        \o class.ADDR_suffix \o class.ADDR_field_separator

addr_enabled == Len(settings.ADDR_format) > 0
byte_enabled == byte_map # NoTable
text_enabled == text_map # NoTable

chunk_size == 4096

\* Where dump() leaves the stream (lines 974-978): at DUMP_input_start when
\* the stream can seek, after the bytes it could read when it cannot.
StartPositions ==
    {settings.DUMP_input_start}
        \cup {Len(input) : start \in {settings.DUMP_input_start} \ (0..Len(input))}

\* Dump when dump() builds the TEXT field mapping array again.
DumpRebuilding ==
    /\ pc = "arguments"
    /\ offset' \in StartPositions
    /\ pc' = IF settings.DUMP_record_length > 0
                 THEN IF settings.DUMP_field_flags = {"BYTE"} THEN "dump_byte_field"
                      ELSE IF settings.DUMP_field_flags = {"TEXT"} THEN "dump_text_field"
                      ELSE "dump_all"
                 ELSE "dump_all_single_record"
    /\ address' = settings.DUMP_output_start
    /\ called' = Append(called, "dump")
    /\ text_map' = initialize4_maps(ClassOf(settings, BYTE_output, TEXT_output),
                                    encoding).text_map
    /\ UNCHANGED <<args, next_idx, status, attribute_tables, BYTE_output, TEXT_output,
                   byte_map, settings, file_vars, reads, output, output_text, flushed>>

\* arguments() with no argument or with "-", and dump(): the stream is at
\* DUMP_input_start and the dump method is chosen.
Dump ==
    /\ pc = "arguments"
    /\ offset' \in StartPositions
    /\ pc' = IF settings.DUMP_record_length > 0
                 THEN IF settings.DUMP_field_flags = {"BYTE"} THEN "dump_byte_field"
                      ELSE IF settings.DUMP_field_flags = {"TEXT"} THEN "dump_text_field"
                      ELSE "dump_all"
                 ELSE "dump_all_single_record"
    /\ address' = settings.DUMP_output_start
    /\ called' = Append(called, "dump")
    /\ UNCHANGED <<args, next_idx, status, attribute_tables, BYTE_output, TEXT_output,
                   byte_map, text_map, settings, file_vars, reads, output, output_text,
                   flushed>>

\* render_record when the padding counts the digits of the missing bytes
\* without their separators.
render_record_of_digits(byte_table, text_table, buffer, at) ==
    (IF addr_enabled THEN AddressText(settings, at) ELSE <<>>)
        \o (IF byte_table # NoTable
                THEN settings.BYTE_indent \o settings.BYTE_prefix
                     \o JoinMapped(byte_table, buffer, settings.BYTE_separator)
                     \o (IF Len(buffer) < settings.DUMP_record_length
                             /\ settings.BYTE_field_width > 0
                             THEN Spaces((settings.DUMP_record_length - Len(buffer))
                                         * settings.BYTE_digits_per_octet)
                             ELSE <<>>)
                     \o settings.BYTE_suffix \o settings.BYTE_field_separator
                ELSE <<>>)
        \o (IF text_table # NoTable
                THEN settings.TEXT_indent \o settings.TEXT_prefix
                     \o JoinMapped(text_table, buffer, settings.TEXT_separator)
                     \o settings.TEXT_suffix
                ELSE <<>>)
        \o settings.DUMP_record_separator

\* The record the loop of dump_all writes for a buffer (lines 1071-1088),
\* with the mapping arrays it was given; a field without mapping array is
\* not enabled.
render_record(byte_table, text_table, buffer, at) ==
    (IF addr_enabled THEN AddressText(settings, at) ELSE <<>>)
        \o (IF byte_table # NoTable
                THEN settings.BYTE_indent \o settings.BYTE_prefix
                     \o JoinMapped(byte_table, buffer, settings.BYTE_separator)
                     \o (IF Len(buffer) < settings.DUMP_record_length
                             /\ settings.BYTE_field_width > 0
                             THEN Spaces((settings.DUMP_record_length - Len(buffer))
                                         * (settings.BYTE_digits_per_octet
                                              + settings.BYTE_separator_size))
                             ELSE <<>>)
                     \o settings.BYTE_suffix \o settings.BYTE_field_separator
                ELSE <<>>)
        \o (IF text_table # NoTable
                THEN settings.TEXT_indent \o settings.TEXT_prefix
                     \o JoinMapped(text_table, buffer, settings.TEXT_separator)
                     \o settings.TEXT_suffix
                ELSE <<>>)
        \o settings.DUMP_record_separator

dump_all_record(buffer, at) == render_record(byte_map, text_map, buffer, at)

\* dump_all when the address advances by the record length.
dump_all_by_length ==
    /\ pc = "dump_all"
    /\ \E buffer \in {Read(settings.DUMP_record_length)} :
          /\ reads' = Append(reads, buffer)
          /\ offset' = offset + Len(buffer)
          /\ IF Len(buffer) <= 0
                 THEN /\ pc' = "done"
                      /\ flushed' = flush(output)
                      /\ UNCHANGED <<address, output>>
                 ELSE /\ output' = output \o dump_all_record(buffer, address)
                      /\ address' = address + settings.DUMP_record_length
                      /\ UNCHANGED <<pc, flushed>>
    /\ UNCHANGED <<called, args, next_idx, status, attribute_tables, BYTE_output, TEXT_output,
                   byte_map, text_map, settings, file_vars, output_text>>

\* One iteration of the loop of dump_all (lines 1065-1091): a record, or
\* the end of the dump when the read returns nothing.
dump_all ==
    /\ pc = "dump_all"
    /\ \E buffer \in {Read(settings.DUMP_record_length)} :
          /\ reads' = Append(reads, buffer)
          /\ offset' = offset + Len(buffer)
          /\ IF Len(buffer) <= 0
                 THEN /\ pc' = "done"
                      /\ flushed' = flush(output)
                      /\ UNCHANGED <<address, output>>
                 ELSE /\ output' = output \o dump_all_record(buffer, address)
                      /\ address' = address + Len(buffer)
                      /\ UNCHANGED <<pc, flushed>>
    /\ UNCHANGED <<called, args, next_idx, status, attribute_tables, BYTE_output, TEXT_output,
                   byte_map, text_map, settings, file_vars, output_text>>

\* complex_fmt of dump_byte_field and dump_text_field: without indent,
\* prefix, separator and suffix the loop is the simple one.
complex_fmt(indent, prefix, separator, suffix) ==
    Len(separator) > 0 \/ Len(prefix) > 0 \/ Len(indent) > 0 \/ Len(suffix) > 0

\* The record of the loop with prefix, separator and suffix, and the record
\* of the simple loop.
decorated_record(field_map, buffer, indent, prefix, separator, suffix) ==
    indent \o prefix \o JoinMapped(field_map, buffer, separator)
        \o suffix \o settings.DUMP_record_separator

plain_record(field_map, buffer) ==
    JoinMapped(field_map, buffer, <<>>) \o settings.DUMP_record_separator

\* One iteration of the loops of dump_byte_field and dump_text_field (lines
\* 1219-1233 and 1272-1286), which write the only field of the dump.
FieldRecord(field_map, indent, prefix, separator, suffix) ==
    \E buffer \in {Read(settings.DUMP_record_length)} :
       /\ reads' = Append(reads, buffer)
       /\ offset' = offset + Len(buffer)
       /\ IF Len(buffer) = 0
              THEN /\ pc' = "done"
                   /\ flushed' = flush(output)
                   /\ UNCHANGED output
              ELSE /\ output' =
                         IF complex_fmt(indent, prefix, separator, suffix)
                             THEN output \o decorated_record(field_map, buffer, indent, prefix,
                                                             separator, suffix)
                             ELSE output \o plain_record(field_map, buffer)
                   /\ UNCHANGED <<pc, flushed>>

dump_byte_field ==
    /\ pc = "dump_byte_field"
    /\ FieldRecord(byte_map, settings.BYTE_indent, settings.BYTE_prefix,
                   settings.BYTE_separator, settings.BYTE_suffix)
    /\ UNCHANGED <<called, args, next_idx, status, attribute_tables, BYTE_output, TEXT_output,
                   byte_map, text_map, settings, file_vars, address, output_text>>

dump_text_field ==
    /\ pc = "dump_text_field"
    /\ FieldRecord(text_map, settings.TEXT_indent, settings.TEXT_prefix,
                   settings.TEXT_separator, settings.TEXT_suffix)
    /\ UNCHANGED <<called, args, next_idx, status, attribute_tables, BYTE_output, TEXT_output,
                   byte_map, text_map, settings, file_vars, address, output_text>>

current_prefix_of_first(first, prefix, separator) == prefix

\* current_byte_prefix and current_text_prefix of dump_all_single_record:
\* indent and prefix before the first chunk, the separator before the
\* others.
current_prefix(first, prefix, separator) == IF first THEN prefix ELSE separator

\* One iteration of the loop of dump_all_single_record (lines 1145-1175), or
\* the end of the record when the read returns nothing (lines 1177-1185).
\* The first chunk is the one read when nothing was read before; the text
\* goes to the StringIO buffer when both fields are enabled, to the output
\* otherwise.
dump_all_single_record ==
    /\ pc = "dump_all_single_record"
    /\ \E buffer \in {Read(chunk_size)} :
       \E first \in {reads = <<>>} :
       \E bytes \in {IF byte_enabled
                         THEN current_prefix(first, settings.BYTE_indent \o settings.BYTE_prefix,
                                             settings.BYTE_separator)
                              \o JoinMapped(byte_map, buffer, settings.BYTE_separator)
                         ELSE <<>>} :
       \E text \in {IF text_enabled
                        THEN current_prefix(first, settings.TEXT_indent \o settings.TEXT_prefix,
                                            settings.TEXT_separator)
                             \o JoinMapped(text_map, buffer, settings.TEXT_separator)
                        ELSE <<>>} :
          /\ reads' = Append(reads, buffer)
          /\ offset' = offset + Len(buffer)
          /\ IF Len(buffer) > 0
                 THEN /\ IF byte_enabled /\ text_enabled
                            THEN /\ output' =
                                       output
                                       \o (IF addr_enabled /\ first
                                               THEN AddressText(settings, address) ELSE <<>>)
                                       \o bytes
                                 /\ output_text' = output_text \o text
                            ELSE /\ output' =
                                       output
                                       \o (IF addr_enabled /\ first
                                               THEN AddressText(settings, address) ELSE <<>>)
                                       \o bytes \o text
                                 /\ UNCHANGED output_text
                      /\ UNCHANGED <<pc, flushed>>
                 ELSE /\ pc' = "done"
                      /\ UNCHANGED output_text
                      /\ output' =
                            IF first THEN output
                            ELSE output
                                 \o (IF byte_enabled
                                         THEN settings.BYTE_suffix
                                              \o settings.BYTE_field_separator
                                              \o (IF text_enabled
                                                      THEN output_text \o settings.TEXT_suffix
                                                      ELSE <<>>)
                                         ELSE settings.TEXT_suffix)
                                 \o settings.DUMP_record_separator
                      /\ flushed' = IF first THEN flushed ELSE flush(output')
    /\ UNCHANGED <<called, args, next_idx, status, attribute_tables, BYTE_output, TEXT_output,
                   byte_map, text_map, settings, file_vars, address>>

----------------------------------------------------------------------------
(* Command lines                                                           *)

MaxOptions == 2         \* options on a command line of Spec
MaxHashes == 2          \* '#' characters in a raw string prefix
MaxBody == 2            \* characters in a raw string body

Option(target, attribute, selector) ==
    [target |-> target, attribute |-> attribute, selector |-> selector]

\* The selectors of the command lines of Spec: the bytes A-C, the bytes
\* C-D and the decimal digits.
SelABC == <<"0", "x", "4", "1", "-", "0", "x", "4", "3">>
SelCD == <<"r", "'", "C", "D", "'">>
SelDigits == <<"[", ":", "d", "i", "g", "i", "t", ":", "]">>
SelBad == <<"4", "1", "x">>
SelOver == <<"0", "x", "F", "E", "-", "0", "x", "1", "0", "0">>

OptionPool ==
    {Option("--byte-foreground=", "red", SelABC),
     Option("--byte-foreground=", "reset", SelCD),
     Option("--byte-foreground=", "red", SelBad),
     Option("--byte-background=", "green", Omitted),
     Option("--byte-background=", "reset", SelCD),
     Option("--text-foreground=", "green", SelDigits),
     Option("--text-foreground=", "red", SelABC),
     Option("--text-background=", "red", SelABC),
     Option("--text-background=", "reset", SelCD),
     Option("--foreground=", "green", SelCD),
     Option("--foreground=", "purple", SelABC),
     Option("--background=", "reset", SelABC),
     Option("--background=", "red", SelOver)}

RECURSIVE SeqsUpTo(_, _)
SeqsUpTo(S, n) ==
    IF n = 0 THEN {<<>>}
    ELSE LET shorter == SeqsUpTo(S, n - 1)
         IN  shorter \cup {Append(q, x) : q \in shorter, x \in S}

Init ==
    /\ args \in SeqsUpTo(OptionPool, MaxOptions)
    /\ InitProgram

Next ==
    \/ Option_background
    \/ Option_byte_background
    \/ Option_byte_foreground
    \/ Option_foreground
    \/ Option_text_background
    \/ Option_text_foreground
    \/ OptionsDone
    \/ Initialize

Spec == Init /\ [][Next]_vars

----------------------------------------------------------------------------
(* Selectors: command lines with the single option                         *)
(*     --text-foreground="bright-red: <selector>"                          *)

\* The six selectors that the help text (SELECTORS) calls equivalent, and
\* the four raw strings it gives for the vowels.
DocumentedForms ==
    {<<"r", "'", "a", "e", "i", "o", "u", "@", "0", "1", "2", "3", "4", "5", "6", "7", "8", "9", "'">>,
     <<"r", "'", "a", "e", "i", "o", "u", "'", " ", " ", " ", " ", " ", " ", " ", " ", " ", "r", "'", "@", "'", " ", "r", "'", "0", "1", "2", "3", "4", "5", "6", "7", "8", "9", "'">>,
     <<"r", "'", "a", "e", "i", "o", "u", "'", " ", " ", " ", " ", " ", " ", " ", " ", " ", "r", "'", "@", "'", " ", "[", ":", "d", "i", "g", "i", "t", ":", "]">>,
     <<"r", "'", "a", "e", "i", "o", "u", "'", " ", " ", " ", " ", " ", " ", " ", " ", " ", "0", "x", "4", "0", " ", " ", "0", "x", "3", "0", "-", "0", "x", "3", "9">>,
     <<"0", "x", "(", "r", "'", "a", "e", "i", "o", "u", "'", " ", " ", " ", " ", " ", " ", " ", " ", " ", " ", " ", "4", "0", " ", " ", " ", " ", "3", "0", "-", "3", "9", ")">>,
     <<"0", "x", "(", "6", "1", " ", "6", "5", " ", "6", "9", " ", "6", "F", " ", "7", "5", " ", " ", " ", " ", " ", "4", "0", " ", " ", " ", " ", "3", "0", "-", "3", "9", ")">>}

DocumentedVowels ==
    {<<"r", "\"", "a", "e", "i", "o", "u", "A", "E", "I", "O", "U", "\"">>,
     <<"r", "'", "a", "e", "i", "o", "u", "A", "E", "I", "O", "U", "'">>,
     <<"r", "#", "'", "a", "e", "i", "o", "u", "A", "E", "I", "O", "U", "'", "#">>,
     <<"r", "#", "#", "\"", "a", "e", "i", "o", "u", "A", "E", "I", "O", "U", "\"", "#", "#">>}

\* How the integers of a selector are written: C-style hex, octal and
\* decimal, and the digits of the three base groups.
Notations == {"0x", "0X", "0", "dec", "0x()", "0X()", "0()", "()"}

NotationRadix(n) ==
    CASE n \in {"0x", "0X", "0x()", "0X()"} -> 16
      [] n \in {"0", "0()"} -> 8
      [] n \in {"dec", "()"} -> 10

\* The integer v in notation n (decimal integers start with a nonzero digit,
\* so 0 has no decimal form).
NumText(n, v) ==
    CASE n = "0x" -> <<"0", "x">> \o FormatDigits(v, 16, HEX_UPPER_DIGITS)
      [] n = "0X" -> <<"0", "X">> \o FormatDigits(v, 16, HEX_LOWER_DIGITS)
      [] n = "0" -> <<"0">> \o FormatDigits(v, 8, HEX_LOWER_DIGITS)
      [] n = "0x()" -> FormatDigits(v, 16, HEX_LOWER_DIGITS)
      [] n = "0X()" -> FormatPadded(v, 16, HEX_UPPER_DIGITS, 2, "0")
      [] n = "0()" -> FormatDigits(v, 8, HEX_LOWER_DIGITS)
      [] OTHER -> FormatDigits(v, 10, HEX_LOWER_DIGITS)

Writable(n, v) == NotationRadix(n) = 10 => v >= 1

RangeText(n, a, b) == NumText(n, a) \o <<"-">> \o NumText(n, b)

\* The selector whose tokens are text, with the base group n asks for.
Wrap(n, text) ==
    CASE n = "0x()" -> <<"0", "x", "(">> \o text \o <<")">>
      [] n = "0X()" -> <<"0", "X", "(">> \o text \o <<")">>
      [] n = "0()" -> <<"0", "(">> \o text \o <<")">>
      [] n = "()" -> <<"(">> \o text \o <<")">>
      [] OTHER -> text

\* Tokens that mean the same in every notation, with the bytes they select.
ClassDigit == [text |-> <<"[", ":", "d", "i", "g", "i", "t", ":", "]">>, bytes |-> 48..57]
RawZ == [text |-> <<"r", "'", "z", "'">>, bytes |-> {122}]
NoToken == [text |-> <<>>, bytes |-> {}]
Neighbours(n) == {NoToken, ClassDigit, RawZ, [text |-> NumText(n, 65), bytes |-> {65}]}

\* pre, token and post separated by single blanks, without the empty ones.
Tokens3(pre, token, post) ==
    Join(SelectSeq(<<pre, token, post>>, LAMBDA t : t # <<>>), <<" ">>)

\* The bytes of the character classes, from the table of the selector
\* grammar: the class name and its hex ranges as sets of integers.
ClassBytes ==
    <<"a", "l", "n", "u", "m">> :> ((48..57) \cup (65..90) \cup (97..122) \cup {170} \cup {181} \cup {186} \cup (192..214) \cup (216..246) \cup (248..255)) @@
    <<"a", "l", "p", "h", "a">> :> ((65..90) \cup (97..122) \cup {170} \cup {181} \cup {186} \cup (192..214) \cup (216..246) \cup (248..255)) @@
    <<"b", "l", "a", "n", "k">> :> ({9} \cup {32} \cup {160}) @@
    <<"c", "n", "t", "r", "l">> :> ((0..31) \cup (127..159)) @@
    <<"d", "i", "g", "i", "t">> :> ((48..57)) @@
    <<"g", "r", "a", "p", "h">> :> ((33..126) \cup (161..255)) @@
    <<"l", "o", "w", "e", "r">> :> ((97..122) \cup {170} \cup {181} \cup {186} \cup (223..246) \cup (248..255)) @@
    <<"p", "r", "i", "n", "t">> :> ((32..126) \cup (160..255)) @@
    <<"p", "u", "n", "c", "t">> :> ((33..35) \cup (37..42) \cup (44..47) \cup (58..59) \cup (63..64) \cup (91..93) \cup {95} \cup {123} \cup {125} \cup {161} \cup {167} \cup {171} \cup (182..183) \cup {187} \cup {191}) @@
    <<"s", "p", "a", "c", "e">> :> ((9..13) \cup {32} \cup {133} \cup {160}) @@
    <<"u", "p", "p", "e", "r">> :> ((65..90) \cup (192..214) \cup (216..222)) @@
    <<"x", "d", "i", "g", "i", "t">> :> ((48..57) \cup (65..70) \cup (97..102)) @@
    <<"a", "s", "c", "i", "i">> :> ((0..127)) @@
    <<"l", "a", "t", "i", "n", "1">> :> ((128..255)) @@
    <<"a", "l", "l">> :> ((0..255))

ClassToken(name) == <<"[", ":">> \o name \o <<":", "]">>

\* s holds sub as a run of consecutive characters.
Contains(s, sub) ==
    \E i \in 1..(Len(s) - Len(sub) + 1) : SubSeq(s, i, i + Len(sub) - 1) = sub

\* Raw strings: the prefix with n '#' characters, the closing delimiter that
\* belongs to it, and the characters of the bodies.
RawPrefix(n, quote) == <<"r">> \o Repeat("#", n) \o <<quote>>
RawSuffix(n, quote) == <<quote>> \o Repeat("#", n)
Quotes == {"'", "\""}
BodyChars == {"A", "3", "0", "'", "\"", "#", "U+00E9", "U+0100"}
Bodies == SeqsUpTo(BodyChars, MaxBody)
BodyBytes(body) == {ord(body[i]) : i \in DOMAIN body} \cap 0..255

\* A selector that is one raw string; closed tells that the body does not
\* hold the closing delimiter.
RawCases ==
    {[text |-> RawPrefix(n, quote) \o body \o RawSuffix(n, quote),
      bytes |-> BodyBytes(body),
      closed |-> ~Contains(body, RawSuffix(n, quote))] :
        n \in 0..MaxHashes, quote \in Quotes, body \in Bodies}

\* A selector that is a raw string prefix and characters without the closing
\* delimiter.
UnclosedCases ==
    UNION {{RawPrefix(o[1], o[2]) \o rest :
               rest \in {body \in Bodies : ~Contains(body, RawSuffix(o[1], o[2]))}} :
           o \in (0..MaxHashes) \X Quotes}

\* A class token alone, in each of the base groups and without one.
ClassCases ==
    {[text |-> Wrap(n, ClassToken(name)), bytes |-> ClassBytes[name]] :
        n \in {"dec", "0x()", "0()", "()"}, name \in DOMAIN ClassBytes}

\* A range from a byte to an integer above 255, after a neighbour.
LowEnds == {0, 1, 250, 255}
HighEnds == {256, 257, 300}
ClampCases ==
    UNION {{[text |-> Wrap(n, Tokens3(pre.text, RangeText(n, a, b), <<>>)),
             bytes |-> pre.bytes \cup a..255] :
               pre \in Neighbours(n), a \in {low \in LowEnds : Writable(n, low)}, b \in HighEnds} :
           n \in Notations}

\* An integer above 255, a range that starts above 255 and a range whose
\* first integer is above its last one, between two neighbours.
Dropped(n) ==
    {NumText(n, v) : v \in HighEnds}
        \cup {RangeText(n, r[1], r[2]) :
                 r \in {<<256, 300>>, <<300, 256>>, <<256, 256>>, <<5, 3>>, <<255, 1>>, <<300, 5>>}}
DroppedCases ==
    UNION {{[text |-> Wrap(n, Tokens3(pre.text, token, post.text)),
             bytes |-> pre.bytes \cup post.bytes] :
               pre \in Neighbours(n), token \in Dropped(n), post \in Neighbours(n)} :
           n \in Notations}

\* A token and right after it a character that is neither a blank nor a
\* character of the token's own kind, or another token.
Followers == {"g", "x", ":", "[", "(", ")", "'", "#", "-", "U+00E9"}
FollowedCases ==
    UNION {{Wrap(n, Tokens3(pre.text, token \o <<f>>, post.text)) :
               pre \in Neighbours(n),
               token \in {NumText(n, 65), RangeText(n, 65, 66), ClassDigit.text, RawZ.text},
               f \in Followers,
               post \in {NoToken, ClassDigit}} :
           n \in Notations}
    \cup UNION {{Wrap(n, token \o next) :
                    token \in {NumText(n, 65), RangeText(n, 65, 66), ClassDigit.text, RawZ.text},
                    next \in {ClassDigit.text, RawZ.text}} :
                n \in Notations}
    \cup UNION {{Wrap(n, token \o NumText(n, 65)) : token \in {ClassDigit.text, RawZ.text}} :
                n \in Notations}

\* One integer without a base group: C-style hex, octal and decimal, and a
\* 0 in front of decimal digits that are not all octal digits.
CStyleCases ==
    UNION {{[text |-> NumText(n, v), value |-> v, notation |-> n] :
               v \in {w \in 0..(TABLE_SIZE - 1) : Writable(n, w)}} :
           n \in {"0x", "0X", "0", "dec"}}
NotOctal(v) ==
    \E i \in DOMAIN FormatDigits(v, 10, HEX_LOWER_DIGITS) :
        FormatDigits(v, 10, HEX_LOWER_DIGITS)[i] \in {"8", "9"}
ZeroDecimalCases ==
    {[text |-> <<"0">> \o FormatDigits(v, 10, HEX_LOWER_DIGITS), value |-> v, notation |-> "0dec"] :
        v \in {w \in 0..(TABLE_SIZE - 1) : NotOctal(w)}}

\* One integer in a base group, made of digits of the group's base: the
\* digits of a byte, and the same after zeros that make three digits.
GroupDigits(n) == IF n = "0X()" THEN HEX_UPPER_DIGITS ELSE HEX_LOWER_DIGITS
GroupTokens(n, v) ==
    {FormatDigits(v, NotationRadix(n), GroupDigits(n)),
     FormatPadded(v, NotationRadix(n), GroupDigits(n), 3, "0")}
GroupCases ==
    UNION {{[text |-> Wrap(c[1], token), value |-> c[2], notation |-> c[1]] :
               token \in GroupTokens(c[1], c[2])} :
           c \in {"0x()", "0X()", "0()", "()"} \X (0..(TABLE_SIZE - 1))}

SelectorInputs ==
    {c.text : c \in GroupCases} \cup DocumentedForms \cup DocumentedVowels
        \cup {c.text : c \in RawCases} \cup UnclosedCases
        \cup {c.text : c \in ClassCases}
        \cup {c.text : c \in ClampCases} \cup {c.text : c \in DroppedCases}
        \cup FollowedCases
        \cup {c.text : c \in CStyleCases} \cup {c.text : c \in ZeroDecimalCases}

SelectorOption(selector) == Option("--text-foreground=", "bright-red", selector)

InitSelector ==
    /\ args \in {<<SelectorOption(selector)>> : selector \in SelectorInputs}
    /\ InitProgram

NextSelector ==
    \/ Option_text_foreground
    \/ OptionsDone

SpecSelector == InitSelector /\ [][NextSelector]_vars

\* Styles: command lines of "--byte=" and "--text=" options, on terminals of
\* every encoding.
MaxStyles == 2          \* options on a command line of SpecStyles

StyleOptions ==
    {Option("--byte=", word, Omitted) : word \in {"binary", "decimal", "hex", "HEX", "octal"}}
        \cup {Option("--text=", word, Omitted) : word \in {"ascii", "caret", "escape", "unicode"}}

InitStyles ==
    /\ args \in SeqsUpTo(StyleOptions, MaxStyles)
    /\ encoding \in Encodings
    /\ input = <<>>
    /\ InitClass

NextStyles ==
    \/ Option_byte
    \/ Option_text
    \/ OptionsDone
    \/ Initialize

SpecStyles == InitStyles /\ [][NextStyles]_vars

\* Layouts: command lines of layout, style and prefix options.
MaxLayout == 3          \* options on a command line of SpecLayout

LayoutOptions ==
    {Option("--narrow", "", Omitted), Option("--wide", "", Omitted),
     Option("--byte=", "binary", Omitted), Option("--byte=", "empty", Omitted),
     Option("--text=", "caret", Omitted), Option("--text=", "empty", Omitted),
     Option("--byte-prefix=", "", <<"<">>),
     Option("--text-prefix=", "", <<"[", "[">>),
     Option("--addr=", "empty", Omitted)}

InitLayout ==
    /\ args \in SeqsUpTo(LayoutOptions, MaxLayout)
    /\ InitProgram

NextLayout ==
    \/ Option_narrow
    \/ Option_wide
    \/ Option_byte
    \/ Option_text
    \/ Option_byte_prefix
    \/ Option_text_prefix
    \/ Option_addr
    \/ OptionsDone
    \/ Initialize

SpecLayout == InitLayout /\ [][NextLayout]_vars

\* Style pairs: command lines with one "--byte=" and one "--text=" option,
\* in either order, with layout options before or after them.
MaxLayouts == 1         \* layout options on a command line of SpecPairs

StylePairs ==
    {<<Option("--byte=", byte, Omitted), Option("--text=", text, Omitted)>> :
        byte \in DOMAIN ByteStyles, text \in DOMAIN TextStyles}
        \cup {<<Option("--text=", text, Omitted), Option("--byte=", byte, Omitted)>> :
                 byte \in DOMAIN ByteStyles, text \in DOMAIN TextStyles}

LayoutChoices ==
    SeqsUpTo({Option("--narrow", "", Omitted), Option("--wide", "", Omitted)}, MaxLayouts)

InitPairs ==
    /\ args \in {layouts \o styles : layouts \in LayoutChoices, styles \in StylePairs}
                \cup {styles \o layouts : layouts \in LayoutChoices, styles \in StylePairs}
    /\ InitProgram

NextPairs ==
    \/ Option_byte
    \/ Option_text
    \/ Option_narrow
    \/ Option_wide
    \/ OptionsDone
    \/ Initialize

SpecPairs == InitPairs /\ [][NextPairs]_vars

\* The layout normalizer on its own: initialize3_layout called on the class
\* as initialize1_fields and initialize2_field_widths leave it for some
\* styles and prefixes, with any layout requested of it.
NormalizerInputs ==
    {[byte |-> byte, text |-> text, byte_prefix |-> byte_prefix,
      text_prefix |-> text_prefix, layout |-> layout] :
        byte \in {"BINARY", "DECIMAL", "EMPTY", "HEX-LOWER"},
        text \in {"ASCII", "CARET", "EMPTY", "UNICODE"},
        byte_prefix \in {<<>>, <<"<">>},
        text_prefix \in {<<>>, <<"[", "[">>},
        layout \in {"NARROW", "WIDE"}}

Requesting(in) ==
    LET fields == initialize1_fields(ClassOf([ClassDefaults EXCEPT
                                                 !.BYTE_prefix = in.byte_prefix,
                                                 !.TEXT_prefix = in.text_prefix],
                                             in.byte, in.text))
    IN  initialize2_field_widths([fields EXCEPT !.class.DUMP_layout = in.layout])

InitNormalizer ==
    /\ args = <<>>
    /\ next_idx = 1
    /\ pc = "initialize3_layout"
    /\ status = "running"
    /\ attribute_tables = [key \in registered_keys |-> NoTable]
    /\ byte_map = NoTable
    /\ text_map = NoTable
    /\ \E in \in NormalizerInputs :
          /\ Requesting(in).status = "ok"
          /\ settings = Requesting(in).class
          /\ BYTE_output = in.byte
          /\ TEXT_output = in.text
    /\ encoding = "utf-8"
    /\ input = <<>>
    /\ offset = 0
    /\ reads = <<>>
    /\ address = 0
    /\ output = <<>>
    /\ output_text = <<>>
    /\ flushed = <<>>
    /\ called = <<>>

\* A call of initialize3_layout.
Normalize ==
    /\ pc = "initialize3_layout"
    /\ \E layout \in {initialize3_layout(ClassOf(settings, BYTE_output, TEXT_output))} :
          /\ settings' = layout.class
          /\ IF layout.status = "ok"
                 THEN /\ pc' = "initialize4_maps"
                      /\ UNCHANGED status
                 ELSE /\ pc' = "exit"
                      /\ status' = layout.status
    /\ UNCHANGED <<called, args, next_idx, attribute_tables, BYTE_output, TEXT_output, byte_map,
                   text_map, file_vars, dump_vars>>

NextNormalizer == Normalize

SpecNormalizer == InitNormalizer /\ [][NextNormalizer]_vars

\* Dumps: command lines of layout, style, length and color options, on
\* input files of a few bytes.
MaxDump == 2            \* options on a command line of SpecDump
MaxInput == 17          \* bytes of the longest input file of SpecDump

SelUnknownClass == <<"[", ":", "b", "o", "g", "u", "s", ":", "]">>

DumpOptions ==
    {Option("--narrow", "", Omitted),
     Option("--addr=", "empty", Omitted),
     Option("--addr=", "decimal", <<"1">>),
     Option("--addr=", "hex", <<"0", "6">>),
     Option("--byte=", "empty", Omitted),
     Option("--byte=", "octal", Omitted),
     Option("--byte=", "bogus", Omitted),
     Option("--text=", "empty", Omitted),
     Option("--text=", "caret", Omitted),
     Option("--text-prefix=", "", <<"[", "[">>),
     Option("--length=", "", <<"0">>),
     Option("--length=", "", <<"4">>),
     Option("--length=", "", <<"4", "0", "9", "7">>),
     Option("--text-foreground=", "red", SelBad),
     Option("--text-foreground=", "red", SelABC),
     Option("--text-background=", "green", SelABC),
     Option("--text-foreground=", "purple", SelABC),
     Option("--text-foreground=", "red", SelUnknownClass)}

\* The input files: empty, the bytes "AB", five bytes with control and
\* Latin-1 characters, and the bytes "A", "B", ... of the longest file.
DumpInputs ==
    {<<>>, <<65, 66>>, <<0, 127, 200, 255, 65>>, [i \in 1..MaxInput |-> 64 + i]}

InitDump ==
    /\ args \in SeqsUpTo(DumpOptions, MaxDump)
    /\ encoding = "utf-8"
    /\ input \in DumpInputs
    /\ InitClass

NextDump ==
    \/ Option_narrow
    \/ Option_addr
    \/ Option_byte
    \/ Option_text
    \/ Option_text_prefix
    \/ Option_length
    \/ Option_text_foreground
    \/ Option_text_background
    \/ OptionsDone
    \/ Initialize
    \/ Dump
    \/ dump_all
    \/ dump_byte_field
    \/ dump_text_field
    \/ dump_all_single_record

SpecDump == InitDump /\ [][NextDump]_vars

\* Records: command lines of start, length, separator, style and color
\* options for the dumps of dump_all, on the input files of SpecDump.
MaxRecords == 2         \* options on a command line of SpecRecords

RecordOptions ==
    {Option("--start=", "", <<"3">>),
     Option("--start=", "", <<"1", ":", "0", "x", "1", "0">>),
     Option("--start=", "", <<"0", ":", "0", "7">>),
     Option("--length=", "", <<"4">>),
     Option("--byte-separator=", "", <<"-", "-">>),
     Option("--byte-separator=", "", <<>>),
     Option("--byte-foreground=", "red", SelABC),
     Option("--byte=", "decimal", Omitted),
     Option("--addr=", "decimal", <<"1">>),
     Option("--addr=", "empty", Omitted)}

InitRecords ==
    /\ args \in SeqsUpTo(RecordOptions, MaxRecords)
    /\ encoding = "utf-8"
    /\ input \in DumpInputs
    /\ InitClass

NextRecords ==
    \/ Option_start
    \/ Option_length
    \/ Option_byte_separator
    \/ Option_byte_foreground
    \/ Option_byte
    \/ Option_addr
    \/ OptionsDone
    \/ Initialize
    \/ Dump
    \/ dump_all

SpecRecords == InitRecords /\ [][NextRecords]_vars

\* Whole files: command lines that start with --length=0, which makes the
\* dump one record, on input files around the chunks dump_all_single_record
\* reads.
MaxWhole == 2           \* options after --length=0 on a command line of SpecWhole
MaxChunks == 2          \* full chunks of the longest input file of SpecWhole

WholeOptions ==
    <<Option("--narrow", "", Omitted),
      Option("--addr=", "empty", Omitted),
      Option("--byte=", "empty", Omitted),
      Option("--text=", "empty", Omitted),
      Option("--addr-prefix=", "", <<"@">>),
      Option("--byte-separator=", "", <<",">>),
      Option("--byte-suffix=", "", <<">">>),
      Option("--text-suffix=", "", <<"]">>)>>

\* The command lines of n different options of WholeOptions, in the order
\* of WholeOptions.
Ascending(n, m) == {s \in [1..n -> 1..m] : \A i \in 1..(n - 1) : s[i] < s[i + 1]}

WholeCommandLines ==
    UNION {{[i \in 1..n |-> WholeOptions[s[i]]] : s \in Ascending(n, Len(WholeOptions))} :
               n \in 0..MaxWhole}

\* A file of a length whose bytes differ from chunk to chunk.
FileOf(length) == [i \in 1..length |-> (i * 7) % 251]

WholeInputs ==
    {FileOf(0), FileOf(1), FileOf(chunk_size + 1), FileOf(MaxChunks * chunk_size)}

InitWhole ==
    /\ args \in {<<Option("--length=", "", <<"0">>)>> \o rest : rest \in WholeCommandLines}
    /\ encoding = "utf-8"
    /\ input \in WholeInputs
    /\ InitClass

NextWhole ==
    \/ Option_length
    \/ Option_narrow
    \/ Option_addr
    \/ Option_byte
    \/ Option_text
    \/ Option_addr_prefix
    \/ Option_byte_separator
    \/ Option_byte_suffix
    \/ Option_text_suffix
    \/ OptionsDone
    \/ Initialize
    \/ Dump
    \/ dump_all_single_record

SpecWhole == InitWhole /\ [][NextWhole]_vars

\* What the byte_selector call of the option did, once options() is past it.
Processed == next_idx > 1 \/ pc = "exit"
CallStatus == IF pc = "exit" THEN status ELSE "ok"
CallBytes == Selected(attribute_tables["TEXT_FOREGROUND"], "bright-red")
TheSelector == args[1].selector

----------------------------------------------------------------------------
(* Properties of byte_selector, under SpecSelector                        *)

DocumentedBytes == {97, 101, 105, 111, 117, 64} \cup 48..57
VowelBytes == {97, 101, 105, 111, 117, 65, 69, 73, 79, 85}

\* C1: the selectors that the help text documents as equivalent make
\* byte_selector assign the attribute to the same bytes: each of the six
\* documented forms selects exactly the lowercase vowels, '@' and the
\* decimal digits, and each of the four documented raw strings for the
\* vowels selects exactly the ten vowels.
C1_DocumentedFormsAgree ==
    Processed =>
        /\ TheSelector \in DocumentedForms =>
               CallStatus = "ok" /\ CallBytes = DocumentedBytes
        /\ TheSelector \in DocumentedVowels =>
               CallStatus = "ok" /\ CallBytes = VowelBytes

C1_Witness ==
    /\ Processed
    /\ TheSelector \in DocumentedForms
    /\ Take(TheSelector, 4) = <<"0", "x", "(", "r">>
    /\ CallBytes = DocumentedBytes

\* C2: for each of the 15 class names the token [:name:], alone in a
\* selector with or without a base group, selects exactly the bytes of the
\* class's hex ranges; [:digit:] selects exactly 0x30..0x39.
C2_ClassSelectsItsRanges ==
    Processed =>
        \A c \in ClassCases :
            TheSelector = c.text => CallStatus = "ok" /\ CallBytes = c.bytes

C2_Witness ==
    /\ Processed
    /\ TheSelector = ClassToken(<<"p", "u", "n", "c", "t">>)
    /\ CallBytes = ClassBytes[<<"p", "u", "n", "c", "t">>]
    /\ Cardinality(CallBytes) = 30

\* C3 as stated: a raw string r, n '#', quote, body, quote, n '#' selects
\* exactly the code points below 256 of the characters of the body, for
\* every body.
C3_AnyBody ==
    Processed =>
        \A c \in RawCases :
            TheSelector = c.text => CallStatus = "ok" /\ CallBytes = c.bytes

\* C3: a raw string r, n '#', quote, body, quote, n '#' whose body does not
\* hold the closing delimiter (the quote followed by n '#') selects exactly
\* the code points below 256 of the characters of the body; characters with
\* a code point of 256 or more select nothing and raise no error.
C3_RawStringSelectsBody ==
    Processed =>
        \A c \in RawCases :
            TheSelector = c.text /\ c.closed => CallStatus = "ok" /\ CallBytes = c.bytes

C3_Witness ==
    /\ Processed
    /\ TheSelector = <<"r", "#", "#", "\"", "A", "\"", "#", "#">>
    /\ CallStatus = "ok"
    /\ CallBytes = {65}

\* C4 as stated: a range a-b with a <= 255 < b assigns the attribute to
\* exactly the bytes a..255 and raises no error.
C4_UpperEndClamped ==
    Processed =>
        \A c \in ClampCases :
            TheSelector = c.text => CallStatus = "ok" /\ CallBytes = c.bytes

\* C5: an integer of 256 or more, a range whose lower end is 256 or more
\* and a range with first > last select no byte and raise no error, and the
\* tokens before and after them are applied.
C5_OutOfRangeDropped ==
    Processed =>
        \A c \in DroppedCases :
            TheSelector = c.text => CallStatus = "ok" /\ CallBytes = c.bytes

C5_Witness ==
    /\ Processed
    /\ TheSelector = Tokens3(ClassDigit.text, RangeText("dec", 256, 300), RawZ.text)
    /\ CallStatus = "ok"
    /\ CallBytes = 48..57 \cup {122}

\* C6 as stated: a raw string prefix that is not followed by its closing
\* delimiter makes byte_selector fail with a user error.
C6_UnclosedRawStringFails ==
    Processed /\ TheSelector \in UnclosedCases => CallStatus = "user_error"

\* C7: a token (integer, range, class or raw string) that is immediately
\* followed by a character other than a blank makes byte_selector fail with
\* a user error.
C7_TokensSeparated ==
    Processed /\ TheSelector \in FollowedCases => CallStatus = "user_error"

C7_Witness ==
    /\ Processed
    /\ TheSelector = RawZ.text \o ClassDigit.text
    /\ CallStatus = "user_error"

\* C8 as stated: without a base group 0x/0X integers are hex, a leading 0
\* with only octal digits is octal and every other integer, a leading 0 with
\* a digit 8 or 9 included, is decimal.
C8_ZeroDecimalIsDecimal ==
    Processed =>
        \A c \in CStyleCases \cup ZeroDecimalCases :
            TheSelector = c.text => CallStatus = "ok" /\ CallBytes = {c.value}

\* C8: without a base group an integer that starts with 0x or 0X is read
\* as hex, one that starts with 0 and has only octal digits as octal and one
\* that starts with a nonzero digit and has only decimal digits as decimal;
\* a leading 0 followed by decimal digits with an 8 or a 9 among them is a
\* user error.
C8_CStyleIntegers ==
    Processed =>
        /\ \A c \in CStyleCases :
               TheSelector = c.text => CallStatus = "ok" /\ CallBytes = {c.value}
        /\ \A c \in ZeroDecimalCases :
               TheSelector = c.text => CallStatus = "user_error"

C8_Witness ==
    /\ Processed
    /\ TheSelector = <<"0", "9">>
    /\ CallStatus = "user_error"

----------------------------------------------------------------------------
(* Properties of the attribute tables and the mapping arrays, under Spec   *)

\* The bytes that the selectors of OptionPool stand for.
PoolBytes(selector) ==
    CASE selector = SelABC -> 65..67
      [] selector = SelCD -> {67, 68}
      [] selector = SelDigits -> 48..57
      [] selector = Omitted -> 0..255
      [] OTHER -> {}

\* Option k of the command line assigns to the table of key.
Writes(k, key) == \E i \in DOMAIN OptionKeys(args[k].target) : OptionKeys(args[k].target)[i] = key

\* A table as its 256 slots; a table that was never created has None in
\* every slot.
Slots(table) == IF table = NoTable THEN NewTable ELSE table

\* A step of options() that applied the option at next_idx.
OptionApplied == pc = "options" /\ next_idx <= Len(args) /\ next_idx' = next_idx + 1

\* C9: the step that applies attribute B with selector Y leaves B in every
\* byte of Y of the option's tables and changes no other slot; when the
\* option before it applied attribute A with selector X to the same table,
\* every byte of X \ Y still holds A; and applying the same option a second
\* time changes no table.
C9_Step ==
    OptionApplied =>
        /\ \A key \in registered_keys : \A b \in 0..255 :
               Slots(attribute_tables'[key])[b] =
                   IF Writes(next_idx, key) /\ b \in PoolBytes(args[next_idx].selector)
                       THEN args[next_idx].attribute
                       ELSE Slots(attribute_tables[key])[b]
        /\ next_idx > 1 =>
               \A key \in registered_keys :
                   Writes(next_idx - 1, key) /\ Writes(next_idx, key) =>
                       \A b \in PoolBytes(args[next_idx - 1].selector)
                                   \ PoolBytes(args[next_idx].selector) :
                           attribute_tables'[key][b] = args[next_idx - 1].attribute
        /\ next_idx > 1 /\ args[next_idx] = args[next_idx - 1] =>
               attribute_tables' = attribute_tables

C9_LastWriterWins == [][C9_Step]_vars

C9_Witness ==
    /\ next_idx = 3
    /\ args[1] = Option("--byte-foreground=", "red", SelABC)
    /\ args[2] = Option("--byte-foreground=", "reset", SelCD)
    /\ attribute_tables["BYTE_FOREGROUND"][66] = "red"
    /\ attribute_tables["BYTE_FOREGROUND"][67] = "reset"
    /\ attribute_tables["BYTE_FOREGROUND"][69] = None

\* The mapping array of the field of a key.
FieldMap(key) == IF KeyField(key) = "BYTE" THEN byte_map ELSE text_map

\* entry holds no escape sequence of the attributes of layer.
NoEscapeOf(layer, entry) ==
    \A k \in DOMAIN ANSI_ESCAPE :
        k[1] = layer /\ Len(ANSI_ESCAPE[k]) > 0 => ~Contains(entry, ANSI_ESCAPE[k])

\* entry is text between the escape sequence and the one that resets the
\* attributes.
Wrapped(entry, escape) ==
    /\ Contains(entry, escape)
    /\ Len(entry) > Len(escape) + Len(ANSI_ESCAPE[<<"RESET", "attributes">>])
    /\ Drop(entry, Len(entry) - Len(ANSI_ESCAPE[<<"RESET", "attributes">>]))
           = ANSI_ESCAPE[<<"RESET", "attributes">>]

\* C10: when one option assigned a color to the bytes X of a table, a later
\* option assigned reset to the bytes Y of the same table and no other
\* option assigned to that table, then after initialize5_attributes the map
\* entries of the bytes of X that are in Y hold no escape sequence of the
\* table's layer and the entries of the other bytes of X are wrapped with
\* the color's escape sequence.
C10_ResetCancelsColor ==
    pc = "arguments" =>
        \A key \in registered_keys : \A i, j \in DOMAIN args :
            (/\ i < j
             /\ \A k \in DOMAIN args : Writes(k, key) <=> k \in {i, j}
             /\ Len(ANSI_ESCAPE[<<KeyLayer(key), args[i].attribute>>]) > 0
             /\ args[j].attribute = "reset")
            => \A b \in PoolBytes(args[i].selector) :
                   IF b \in PoolBytes(args[j].selector)
                       THEN NoEscapeOf(KeyLayer(key), FieldMap(key)[b])
                       ELSE Wrapped(FieldMap(key)[b],
                                    ANSI_ESCAPE[<<KeyLayer(key), args[i].attribute>>])

C10_Witness ==
    /\ pc = "arguments"
    /\ args = <<Option("--byte-foreground=", "red", SelABC),
                Option("--byte-foreground=", "reset", SelCD)>>
    /\ byte_map[67] = <<"4", "3">>
    /\ byte_map[66] = <<"ESC", "[", "3", "1", "m", "4", "2", "ESC", "[", "0", "m">>

----------------------------------------------------------------------------
(* The mapping arrays                                                      *)

\* The width, the base and the digits of the numeric styles.
NumericStyles == {"BINARY", "OCTAL", "DECIMAL", "HEX-LOWER", "HEX-UPPER"}

StyleWidth(style) ==
    CASE style = "BINARY" -> 8
      [] style \in {"OCTAL", "DECIMAL"} -> 3
      [] style \in {"HEX-LOWER", "HEX-UPPER"} -> 2

StyleBase(style) ==
    CASE style = "BINARY" -> 2
      [] style = "OCTAL" -> 8
      [] style = "DECIMAL" -> 10
      [] style \in {"HEX-LOWER", "HEX-UPPER"} -> 16

StyleDigits(style) ==
    CASE style = "BINARY" -> {"0", "1"}
      [] style = "OCTAL" -> OCT_CHARS
      [] style = "DECIMAL" -> DEC_CHARS
      [] style = "HEX-LOWER" -> DEC_CHARS \cup CharRange(97, 102)
      [] style = "HEX-UPPER" -> DEC_CHARS \cup CharRange(65, 70)

\* entry without the spaces it starts with.
Unpadded(entry) == Drop(entry, SpanEnd(entry, 1, {" "}) - 1)

\* C11: once initialize() built the BYTE field mapping array of a numeric
\* style, the entry of every byte b has the width of the style, is made of
\* digits of the style (after spaces and without a leading zero for
\* DECIMAL, without spaces for the other styles), has the value b in the
\* base of the style, and no two bytes have the same entry.
C11_ByteMapRoundTrips ==
    pc = "arguments" /\ byte_map # NoTable =>
        /\ BYTE_output \in NumericStyles
        /\ DOMAIN byte_map = 0..255
        /\ \A b \in 0..255 :
              /\ Len(byte_map[b]) = StyleWidth(BYTE_output)
              /\ Unpadded(byte_map[b]) # <<>>
              /\ \A i \in DOMAIN Unpadded(byte_map[b]) :
                    Unpadded(byte_map[b])[i] \in StyleDigits(BYTE_output)
              /\ BYTE_output # "DECIMAL" => Unpadded(byte_map[b]) = byte_map[b]
              /\ BYTE_output = "DECIMAL" /\ b > 0 => Unpadded(byte_map[b])[1] # "0"
              /\ int(Unpadded(byte_map[b]), StyleBase(BYTE_output)) = b
        /\ Cardinality({byte_map[b] : b \in 0..255}) = 256

C11_Witness ==
    /\ pc = "arguments"
    /\ args = <<Option("--byte=", "HEX", Omitted), Option("--byte=", "decimal", Omitted)>>
    /\ BYTE_output = "DECIMAL"
    /\ byte_map[7] = <<" ", " ", "7">>
    /\ byte_map[255] = <<"2", "5", "5">>

\* The characters of an entry of a TEXT field mapping array of a style.
TextStyleChars(style) ==
    CASE style \in {"ASCII", "UNICODE"} -> 1
      [] style \in {"CARET", "CARET_ESCAPE"} -> 2

\* The code point the entry of byte b shows in a style, -1 when the entry
\* shows no character of its own.
ShownCodePoint(style, b) ==
    CASE style = "ASCII" -> IF b \in 32..126 THEN b ELSE -1
      [] style = "UNICODE" -> IF b \in 32..126 \/ b \in 160..255 THEN b ELSE -1
      [] style = "CARET" ->
            IF b = 127 THEN 63 ELSE IF b \in 0..31 \/ b \in 128..159 THEN b + 64 ELSE b
      [] style = "CARET_ESCAPE" ->
            IF b \in {0, 7, 8, 9, 10, 11, 12, 13, 127} THEN -1
            ELSE IF b \in 1..31 \/ b \in 128..159 THEN b + 64 ELSE b

\* C12: initialize() ends without an error whatever the encoding of the
\* output; the entry of a byte whose character does not encode is the
\* marker of the style ("?" for ASCII and UNICODE, "??" for CARET and
\* CARET_ESCAPE) and nothing else, and every entry of the TEXT field
\* mapping array has TEXT_chars_per_octet characters, one or two with the
\* style.
C12_UnencodableBecomesMarker ==
    /\ status = "running"
    /\ pc = "arguments" /\ text_map # NoTable =>
          /\ settings.TEXT_chars_per_octet = TextStyleChars(TEXT_output)
          /\ \A b \in 0..255 :
                /\ Len(text_map[b]) = settings.TEXT_chars_per_octet
                /\ ShownCodePoint(TEXT_output, b) >= 0
                   /\ ~Encodable(ShownCodePoint(TEXT_output, b), encoding)
                   => text_map[b] = [i \in 1..TextStyleChars(TEXT_output) |-> "?"]
          /\ TEXT_output = "CARET" /\ ~Encodable(255, encoding)
                => text_map[255] = <<"?", "?">>

C12_Witness ==
    /\ pc = "arguments"
    /\ status = "running"
    /\ encoding = "ascii"
    /\ TEXT_output = "CARET"
    /\ text_map[255] = <<"?", "?">>
    /\ text_map[128] = <<"?", "?">>
    /\ text_map[65] = <<" ", "A">>
    /\ text_map[1] = <<"^", "A">>

----------------------------------------------------------------------------
(* The layout                                                              *)

\* The characters dump_all writes for the address of a record that fits
\* the address width, and the columns (from 0) where unit k of the BYTE
\* field and unit k of the TEXT field start when both fields start in the
\* same column of their lines.
AddrColumns ==
    IF settings.ADDR_output = "EMPTY" THEN 0
    ELSE Len(settings.ADDR_prefix) + settings.ADDR_digits + Len(settings.ADDR_suffix)
             + Len(settings.ADDR_field_separator)

ByteUnitStart(k) ==
    AddrColumns + Len(settings.BYTE_indent) + Len(settings.BYTE_prefix)
        + k * (settings.BYTE_digits_per_octet + Len(settings.BYTE_separator))

TextUnitStart(k) ==
    Len(settings.TEXT_indent) + Len(settings.TEXT_prefix)
        + k * (settings.TEXT_chars_per_octet + Len(settings.TEXT_separator))

UnitDelta == settings.BYTE_digits_per_octet - settings.TEXT_chars_per_octet

Units == 0..3

Normalized == pc = "arguments" /\ settings.DUMP_layout = "NARROW"

\* C13 as stated: once initialize3_layout settled a NARROW layout, the text
\* indent is as long as the address columns plus the BYTE indent and
\* prefix, the text separator is the byte separator plus the difference of
\* digits and characters per octet, and unit k of the text line starts in
\* the column where unit k of the byte line starts.
C13_TextStartsAtByteStart ==
    Normalized =>
        /\ Len(settings.TEXT_indent)
               = AddrColumns + Len(settings.BYTE_indent) + Len(settings.BYTE_prefix)
        /\ Len(settings.TEXT_separator) = Len(settings.BYTE_separator) + UnitDelta
        /\ \A k \in Units : TextUnitStart(k) = ByteUnitStart(k)

\* C13, amended: once initialize3_layout settled a NARROW layout, the text
\* indent and prefix together are as long as the address columns plus the
\* BYTE indent and prefix plus the difference of digits and characters per
\* octet, the text separator is the byte separator plus that difference,
\* and unit k of the text line ends in the column where unit k of the byte
\* line ends (it starts that difference to the right).
C13_TextEndsAtByteEnd ==
    Normalized =>
        /\ UnitDelta >= 0
        /\ Len(settings.TEXT_indent) + Len(settings.TEXT_prefix)
               = AddrColumns + Len(settings.BYTE_indent) + Len(settings.BYTE_prefix)
                     + UnitDelta
        /\ Len(settings.TEXT_separator) = Len(settings.BYTE_separator) + UnitDelta
        /\ \A k \in Units :
              /\ TextUnitStart(k) = ByteUnitStart(k) + UnitDelta
              /\ TextUnitStart(k) + settings.TEXT_chars_per_octet
                     = ByteUnitStart(k) + settings.BYTE_digits_per_octet

C13_Witness ==
    /\ Normalized
    /\ args = <<Option("--text-prefix=", "", <<"[", "[">>),
                Option("--narrow", "", Omitted), Option("--byte=", "binary", Omitted)>>
    /\ settings.BYTE_indent = <<" ", " ">>
    /\ Len(settings.TEXT_indent) = 8
    /\ Len(settings.TEXT_prefix) = 9
    /\ Len(settings.TEXT_separator) = 8

\* The argument of the last option of the command line with a target, or
\* the default when no option has it.
RECURSIVE LastArgument(_, _, _)
LastArgument(options, target, default) ==
    IF options = <<>> THEN default
    ELSE IF options[Len(options)].target = target THEN options[Len(options)].selector
    ELSE LastArgument(Take(options, Len(options) - 1), target, default)

\* C16: once initialize() settled a configuration whose BYTE field or TEXT
\* field is EMPTY, the layout is WIDE wherever "--narrow" stood on the
\* command line, the indents are empty, the prefixes are the ones the
\* options gave and the separators the defaults.
C16_NarrowIgnoredWhenEmpty ==
    pc = "arguments" /\ (BYTE_output = "EMPTY" \/ TEXT_output = "EMPTY") =>
        /\ settings.DUMP_layout = "WIDE"
        /\ settings.BYTE_indent = <<>>
        /\ settings.TEXT_indent = <<>>
        /\ settings.BYTE_prefix = LastArgument(args, "--byte-prefix=", <<>>)
        /\ settings.TEXT_prefix = LastArgument(args, "--text-prefix=", <<>>)
        /\ settings.BYTE_separator = <<" ">>
        /\ settings.TEXT_separator = <<>>

C16_Witness ==
    /\ pc = "arguments"
    /\ args = <<Option("--byte=", "empty", Omitted), Option("--byte-prefix=", "", <<"<">>),
                Option("--narrow", "", Omitted)>>
    /\ BYTE_output = "EMPTY"
    /\ settings.DUMP_layout = "WIDE"
    /\ byte_map = NoTable

\* The strings of the layout.
LayoutStrings(class) ==
    <<class.BYTE_field_separator, class.BYTE_indent, class.BYTE_prefix, class.BYTE_separator,
      class.TEXT_indent, class.TEXT_prefix, class.TEXT_separator>>

NarrowOfEmpty ==
    /\ pc = "initialize3_layout"
    /\ settings.DUMP_layout = "NARROW"
    /\ BYTE_output = "EMPTY" \/ TEXT_output = "EMPTY"

----------------------------------------------------------------------------
(* The dump, under SpecDump                                                *)

\* The lines of a text: what stands before each "\n" of it.
RECURSIVE LineEnd(_, _)
LineEnd(text, i) ==
    IF i > Len(text) \/ text[i] = "\n" THEN i ELSE LineEnd(text, i + 1)

RECURSIVE Lines(_)
Lines(text) ==
    IF text = <<>> THEN <<>>
    ELSE <<Take(text, LineEnd(text, 1) - 1)>> \o Lines(Drop(text, LineEnd(text, 1)))

\* No color option selected a byte: the strings of the mapping arrays are
\* the characters the terminal shows.
Undecorated == \A key \in registered_keys : attribute_tables[key] = NoTable

\* A dump of records in the NARROW layout, as far as it was written.
NarrowDump ==
    /\ pc \in {"dump_all", "done"}
    /\ settings.DUMP_layout = "NARROW"
    /\ settings.DUMP_record_length > 0
    /\ Undecorated

\* The address of record r of the dump: every record before it is full.
RecordAddress(r) == settings.DUMP_output_start + (r - 1) * settings.DUMP_record_length

\* The column after the last digit of byte unit k (from 1) on the first
\* line of record r, and after the last character of text unit k on its
\* second line.
ByteUnitEnd(r, k) ==
    (IF addr_enabled THEN Len(AddressText(settings, RecordAddress(r))) ELSE 0)
        + Len(settings.BYTE_indent) + Len(settings.BYTE_prefix)
        + (k - 1) * (settings.BYTE_digits_per_octet + Len(settings.BYTE_separator))
        + settings.BYTE_digits_per_octet

TextUnitEnd(k) ==
    Len(settings.TEXT_indent) + Len(settings.TEXT_prefix)
        + (k - 1) * (settings.TEXT_chars_per_octet + Len(settings.TEXT_separator))
        + settings.TEXT_chars_per_octet

\* Unit k of record r is printed on the two lines of the record, the text
\* string ending where the byte string ends.
UnitsAligned(r, k) ==
    LET byte_line == Lines(output)[2 * r - 1]
        text_line == Lines(output)[2 * r]
        byte_end == ByteUnitEnd(r, k)
        text_end == TextUnitEnd(k)
    IN  /\ SubSeq(byte_line, byte_end - settings.BYTE_digits_per_octet + 1, byte_end)
               = byte_map[reads[r][k]]
        /\ SubSeq(text_line, text_end - settings.TEXT_chars_per_octet + 1, text_end)
               = text_map[reads[r][k]]
        /\ text_end = byte_end

\* C14: in a NARROW dump, for every record written and every byte k of
\* the record, the text string of the byte is printed on the second line of
\* the record directly below its byte string, which is on the first line:
\* the last character of the text string is in the column of the last digit
\* of the byte string.
C14_TextBelowByte ==
    NarrowDump =>
        \A r \in 1..Len(reads) : \A k \in 1..Len(reads[r]) : UnitsAligned(r, k)

\* The dump of the two bytes "AB" is complete, and the configuration is:
\* hexadecimal addresses of width 6, hexadecimal bytes, ASCII text, records
\* of 16 bytes in the WIDE layout, no prefix and no color.
DumpOfAB ==
    /\ pc = "done"
    /\ input = <<65, 66>>
    /\ settings.ADDR_output = "HEX-LOWER"
    /\ settings.ADDR_digits = 6
    /\ BYTE_output = "HEX-LOWER"
    /\ TEXT_output = "ASCII"
    /\ settings.DUMP_record_length = 16
    /\ settings.DUMP_layout = "WIDE"
    /\ settings.TEXT_prefix = <<>>
    /\ Undecorated

\* C17 as stated: the dump of "AB" is one record, made of the address
\* "000000: ", the byte field "41 42" with 14 * 3 - 1 spaces of padding,
\* the separator of the fields and the text field "AB".
C17_ZeroAddressShortPadding ==
    DumpOfAB =>
        output = <<"0", "0", "0", "0", "0", "0", ":", " ">>
                     \o <<"4", "1", " ", "4", "2">> \o Spaces(14 * 3 - 1)
                     \o settings.BYTE_field_separator
                     \o <<"A", "B">> \o settings.DUMP_record_separator

\* C17, amended: the dump of "AB" is one record, made of the address
\* padded to six characters (with spaces, "     0: ", for the width "6";
\* with zeros, "000000: ", for the width "06"), the byte field "41 42"
\* with 14 * 3 spaces of padding, the two spaces that separate the fields,
\* the text field "AB" and a newline.
C17_PaddedAddressFullPadding ==
    DumpOfAB =>
        /\ settings.ADDR_format \in {<<"%", "6", "x">>, <<"%", "0", "6", "x">>}
        /\ output = (IF settings.ADDR_format = <<"%", "0", "6", "x">>
                         THEN <<"0", "0", "0", "0", "0", "0">>
                         ELSE <<" ", " ", " ", " ", " ", "0">>)
                        \o <<":", " ">>
                        \o <<"4", "1", " ", "4", "2">>
                        \o [i \in 1..(14 * 3) |-> " "]
                        \o <<" ", " ">>
                        \o <<"A", "B">> \o <<"\n">>

C17_Witness ==
    /\ DumpOfAB
    /\ args = <<>>
    /\ Len(reads) = 2
    /\ Len(output) = 8 + 5 + 42 + 2 + 2 + 1
    /\ Take(output, 8) = <<" ", " ", " ", " ", " ", "0", ":", " ">>

\* C18: when the program has ended in an error it is at its exit and it
\* never read a byte of the input nor wrote a character of the dump; that
\* is, a program that has read or written anything raised no error.
C18_ErrorsBeforeDump ==
    status # "running" =>
        /\ pc = "exit"
        /\ reads = <<>>
        /\ offset = 0
        /\ output = <<>>
        /\ output_text = <<>>

\* BYTE and TEXT both EMPTY: the error of initialize1_fields, on an input
\* file that has bytes to dump.
C18_Witness ==
    /\ status = "user_error"
    /\ pc = "exit"
    /\ BYTE_output = "EMPTY"
    /\ TEXT_output = "EMPTY"
    /\ next_idx = Len(args) + 1
    /\ input = <<65, 66>>
    /\ output = <<>>

\* A dump of records of DUMP_record_length bytes, running or complete.
RecordDump ==
    /\ pc \in {"dump_all", "dump_byte_field", "dump_text_field", "done"}
    /\ settings.DUMP_record_length > 0

\* The bytes of all the reads, in order.
RECURSIVE Flatten(_)
Flatten(buffers) ==
    IF buffers = <<>> THEN <<>>
    ELSE Flatten(Take(buffers, Len(buffers) - 1)) \o buffers[Len(buffers)]

\* The reads that returned bytes, and the lines of a record: two in the
\* NARROW layout, one otherwise.
Records == {r \in DOMAIN reads : Len(reads[r]) > 0}
LinesPerRecord == IF settings.DUMP_layout = "NARROW" THEN 2 ELSE 1

StartsWith(text, head) == Len(head) <= Len(text) /\ Take(text, Len(head)) = head
EndsWith(text, tail) == Len(tail) <= Len(text) /\ Drop(text, Len(text) - Len(tail)) = tail

\* Record r of the output shows the bytes of read r: its first line starts
\* with the address and the byte strings of these bytes, its last line ends
\* with their text strings, for the fields that are enabled.
RecordShows(r) ==
    LET first_line == Lines(output)[LinesPerRecord * (r - 1) + 1]
        last_line == Lines(output)[LinesPerRecord * r]
    IN  /\ byte_enabled =>
              StartsWith(first_line,
                         (IF addr_enabled
                              THEN AddressText(settings, RecordAddress(r)) ELSE <<>>)
                             \o settings.BYTE_indent \o settings.BYTE_prefix
                             \o JoinMapped(byte_map, reads[r], settings.BYTE_separator))
        /\ text_enabled =>
              EndsWith(last_line,
                       JoinMapped(text_map, reads[r], settings.TEXT_separator)
                           \o settings.TEXT_suffix)

\* C19: in a dump of records of L > 0 bytes, the reads that returned
\* bytes come first: each returned exactly L bytes, except the last of
\* them, which returned between 1 and L; the dump is complete when a read
\* after them has returned nothing. The reads cover the input read so far
\* byte by byte in order, the whole input once the dump is complete. The
\* output has one record for each read that returned bytes, showing these
\* bytes, and none for the read that returned nothing.
C19_RecordsCoverInput ==
    RecordDump =>
        /\ Records = 1..Cardinality(Records)
        /\ \A r \in Records :
              /\ Len(reads[r]) \in 1..settings.DUMP_record_length
              /\ r < Cardinality(Records) => Len(reads[r]) = settings.DUMP_record_length
        /\ Len(reads) = Cardinality(Records) + (IF pc = "done" THEN 1 ELSE 0)
        /\ Flatten(reads) = Take(input, offset)
        /\ pc = "done" => offset = Len(input)
        /\ Len(Lines(output)) = LinesPerRecord * Cardinality(Records)
        /\ \A r \in Records : RecordShows(r)

\* Seventeen bytes in records of four: four full records, one of a single
\* byte and the read that ends the dump.
C19_Witness ==
    /\ pc = "done"
    /\ settings.DUMP_record_length = 4
    /\ Len(input) = 17
    /\ [r \in DOMAIN reads |-> Len(reads[r])] = <<4, 4, 4, 4, 1, 0>>
    /\ Len(Lines(output)) = 5

----------------------------------------------------------------------------
(* The whole file as one record, under SpecWhole                           *)

WholeDump ==
    /\ pc \in {"dump_all_single_record", "done"}
    /\ settings.DUMP_record_length = 0

\* The address of the record, and the BYTE field and the TEXT field of the
\* first n bytes of the input, without their suffixes.
AddressOnce ==
    IF addr_enabled THEN AddressText(settings, settings.DUMP_output_start) ELSE <<>>

ByteFieldOf(n) ==
    settings.BYTE_indent \o settings.BYTE_prefix
        \o JoinMapped(byte_map, Take(input, n), settings.BYTE_separator)

TextFieldOf(n) ==
    settings.TEXT_indent \o settings.TEXT_prefix
        \o JoinMapped(text_map, Take(input, n), settings.TEXT_separator)

\* C20: in a dump of the whole file as one record, nothing is written
\* before bytes were read, and nothing at all for an empty file. While
\* chunks are read the output is the address, once, and the BYTE field of
\* the bytes read so far, joined by the byte separator across the chunks,
\* and no character of the TEXT field, which is kept aside (or it is the
\* address and the only field that is enabled). When the dump is complete
\* the output is the address, the BYTE field of the whole input, the BYTE
\* suffix and the separator of the fields, the TEXT field of the whole
\* input, the TEXT suffix and one record separator.
C20_WholeFileRecord ==
    WholeDump =>
        IF offset = 0 THEN output = <<>> /\ output_text = <<>>
        ELSE IF pc = "dump_all_single_record"
            THEN IF byte_enabled /\ text_enabled
                     THEN /\ output = AddressOnce \o ByteFieldOf(offset)
                          /\ output_text = TextFieldOf(offset)
                     ELSE /\ output = AddressOnce \o (IF byte_enabled THEN ByteFieldOf(offset)
                                                                     ELSE TextFieldOf(offset))
                          /\ output_text = <<>>
        ELSE /\ offset = Len(input)
             /\ output = AddressOnce
                             \o (IF byte_enabled
                                     THEN ByteFieldOf(Len(input)) \o settings.BYTE_suffix
                                              \o settings.BYTE_field_separator
                                     ELSE <<>>)
                             \o (IF text_enabled
                                     THEN TextFieldOf(Len(input)) \o settings.TEXT_suffix
                                     ELSE <<>>)
                             \o settings.DUMP_record_separator

\* A file of one chunk and one byte, dumped with both fields and suffixes.
C20_Witness ==
    /\ pc = "done"
    /\ args = <<Option("--length=", "", <<"0">>), Option("--byte-suffix=", "", <<">">>),
                Option("--text-suffix=", "", <<"]">>)>>
    /\ Len(input) = chunk_size + 1
    /\ [r \in DOMAIN reads |-> Len(reads[r])] = <<chunk_size, 1, 0>>
    /\ Len(output_text) = chunk_size + 1
    /\ Len(output) = 8 + (3 * (chunk_size + 1) - 1) + 1 + 2 + (chunk_size + 1) + 1 + 1
    /\ output[8 + 3 * (chunk_size + 1)] = ">"

----------------------------------------------------------------------------
(* The dump methods compared, under SpecDump                               *)

\* C21 as stated: while records of L > 0 bytes are dumped, the output
\* was flushed after each record that was written, so that nothing written
\* is left unflushed; and after the dump of a file with bytes as a single
\* record the output was flushed exactly once, after the record.
C21_FlushAfterEachRecord ==
    /\ RecordDump /\ pc # "done" =>
          /\ Len(flushed) = Cardinality(Records)
          /\ flushed # <<>> => flushed[Len(flushed)] = Len(output)
    /\ WholeDump /\ pc = "done" /\ Len(input) > 0 => flushed = <<Len(output)>>

\* C21, amended: the output is never flushed before the dump is complete;
\* a complete dump of records of L > 0 bytes flushed it exactly once, after
\* the last record (after nothing, when the file is empty), and a complete
\* dump of a file as a single record flushed it exactly once, after the
\* record, or not at all when the file is empty.
C21_FlushOnceAfterDump ==
    IF pc # "done" THEN flushed = <<>>
    ELSE IF settings.DUMP_record_length = 0 /\ Len(input) = 0 THEN flushed = <<>>
    ELSE flushed = <<Len(output)>>

\* Five records were written and flushed together.
C21_Witness ==
    /\ pc = "done"
    /\ settings.DUMP_record_length = 4
    /\ Cardinality(Records) = 5
    /\ Len(Lines(output)) = 5
    /\ flushed = <<Len(output)>>

\* A dump of records of the BYTE field alone or of the TEXT field alone.
SingleField ==
    /\ RecordDump
    /\ settings.DUMP_field_flags \in {{"BYTE"}, {"TEXT"}}

OnlyByte == settings.DUMP_field_flags = {"BYTE"}
OnlyMap == IF OnlyByte THEN byte_map ELSE text_map
OnlyIndent == IF OnlyByte THEN settings.BYTE_indent ELSE settings.TEXT_indent
OnlyPrefix == IF OnlyByte THEN settings.BYTE_prefix ELSE settings.TEXT_prefix
OnlySeparator == IF OnlyByte THEN settings.BYTE_separator ELSE settings.TEXT_separator
OnlySuffix == IF OnlyByte THEN settings.BYTE_suffix ELSE settings.TEXT_suffix

\* What dump_all writes for the first n reads.
RECURSIVE dump_all_records(_)
dump_all_records(n) ==
    IF n = 0 THEN <<>>
    ELSE dump_all_records(n - 1) \o dump_all_record(reads[n], RecordAddress(n))

\* C22: in a dump of the BYTE field alone or of the TEXT field alone,
\* what dump_byte_field or dump_text_field wrote is what dump_all writes
\* for the same reads; for every read, the record of the loop with prefix,
\* separator and suffix is the record of dump_all, and so is the record of
\* the simple loop whenever the simple loop is the one chosen.
C22_SingleFieldPathsAgree ==
    SingleField =>
        /\ output = dump_all_records(Cardinality(Records))
        /\ \A r \in Records :
              /\ decorated_record(OnlyMap, reads[r], OnlyIndent, OnlyPrefix, OnlySeparator,
                                  OnlySuffix)
                     = dump_all_record(reads[r], RecordAddress(r))
              /\ ~complex_fmt(OnlyIndent, OnlyPrefix, OnlySeparator, OnlySuffix) =>
                     plain_record(OnlyMap, reads[r])
                         = dump_all_record(reads[r], RecordAddress(r))

\* The BYTE field alone, with a last record of one byte.
C22_Witness ==
    /\ pc = "done"
    /\ args = <<Option("--addr=", "empty", Omitted), Option("--text=", "empty", Omitted)>>
    /\ OnlyByte
    /\ Len(input) = 17
    /\ Len(Lines(output)) = 2
    /\ Lines(output)[2] = <<"5", "1">>

\* The mapping arrays before the attributes are applied, and the mapping
\* arrays a loop that visits the attribute tables in an order leaves.
PlainMaps == initialize4_maps(ClassOf(settings, BYTE_output, TEXT_output), encoding)
ByteMapIn(order) == DecorateField("BYTE", PlainMaps.byte_map, attribute_tables, order)
TextMapIn(order) == DecorateField("TEXT", PlainMaps.text_map, attribute_tables, order)

\* What dump_all writes for the first n reads after such a loop.
RECURSIVE RecordsIn(_, _)
RecordsIn(order, n) ==
    IF n = 0 THEN <<>>
    ELSE RecordsIn(order, n - 1)
             \o render_record(ByteMapIn(order), TextMapIn(order), reads[n], RecordAddress(n))

\* C23: what dump_all has written is what it writes for the same options
\* and the same input in a run where initialize5_attributes visits the
\* attribute tables in any other order.
C23_OutputDetermined ==
    RecordDump /\ ~SingleField =>
        \A order \in KeyOrders : output = RecordsIn(order, Cardinality(Records))

----------------------------------------------------------------------------
(* The caret styles, under SpecStyles                                      *)

\* The bytes that are C0 control codes or DEL, and the C1 control codes.
C0_DEL == 0..31 \cup {127}
C1 == 128..159

\* The caret notation of a byte.
CaretNotation(b) ==
    IF b \in C0_DEL THEN <<"^", unichr((b + 64) % 128)>>
    ELSE IF b \in C1 THEN <<"^", unichr(((b + 64) % 128) + 128)>>
    ELSE <<" ", unichr(b)>>

\* The bytes the CARET_ESCAPE style shows as C-style escapes.
CStyleEscaped == {0, 7, 8, 9, 10, 11, 12, 13, 127}

CaretStyle == pc = "arguments" /\ TEXT_output \in {"CARET", "CARET_ESCAPE"}

\* The output can encode every character that the style shows.
ShownEncodable ==
    \A b \in 0..255 :
        ShownCodePoint(TEXT_output, b) >= 0 => Encodable(ShownCodePoint(TEXT_output, b), encoding)

\* C24 as stated: once initialize() settled the CARET or the CARET_ESCAPE
\* style, the 256 entries of the TEXT field mapping array have two
\* characters each and are pairwise distinct, and with the CARET style the
\* entry of every byte is its caret notation.
C24_CaretUnique ==
    CaretStyle =>
        /\ \A b \in 0..255 : Len(text_map[b]) = 2
        /\ Cardinality({text_map[b] : b \in 0..255}) = 256
        /\ TEXT_output = "CARET" => \A b \in 0..255 : text_map[b] = CaretNotation(b)

\* C24, amended: the same, when the output can encode every character
\* that the style shows; and with the CARET_ESCAPE style the entry of every
\* byte is its caret notation too, but for the nine bytes that are shown as
\* a backslash and a letter, digit or question mark.
C24_CaretUniqueWhenEncodable ==
    CaretStyle /\ ShownEncodable =>
        /\ \A b \in 0..255 : Len(text_map[b]) = 2
        /\ Cardinality({text_map[b] : b \in 0..255}) = 256
        /\ TEXT_output = "CARET" => \A b \in 0..255 : text_map[b] = CaretNotation(b)
        /\ TEXT_output = "CARET_ESCAPE" =>
              \A b \in 0..255 :
                  IF b \in CStyleEscaped THEN text_map[b][1] = "\\"
                  ELSE text_map[b] = CaretNotation(b)

C24_Witness ==
    /\ CaretStyle
    /\ TEXT_output = "CARET"
    /\ encoding = "utf-8"
    /\ text_map[0] = <<"^", "@">>
    /\ text_map[127] = <<"^", "?">>
    /\ text_map[128] = <<"^", "U+00C0">>
    /\ text_map[192] = <<" ", "U+00C0">>

----------------------------------------------------------------------------
(* The decoration of the mapping arrays, under Spec                        *)

\* The escape sequence that the table of key holds for byte b: empty when
\* the byte has no attribute there or its attribute has no escape sequence.
EscapeAt(key, b) ==
    IF attribute_tables[key] = NoTable THEN <<>>
    ELSE IF attribute_tables[key][b] = None THEN <<>>
    ELSE ANSI_ESCAPE_get(<<KeyLayer(key), attribute_tables[key][b]>>)

\* entry between an escape sequence and the one that resets the attributes.
WrapEntry(entry, escape) == escape \o entry \o ANSI_ESCAPE[<<"RESET", "attributes">>]

\* text without its escape sequences: ESC and what follows up to an "m".
RECURSIVE StripEscapes(_, _)
StripEscapes(text, inside) ==
    IF text = <<>> THEN <<>>
    ELSE IF inside THEN StripEscapes(Tail(text), Head(text) # "m")
    ELSE IF Head(text) = "ESC" THEN StripEscapes(Tail(text), TRUE)
    ELSE <<Head(text)>> \o StripEscapes(Tail(text), FALSE)

\* What the decoration can make of the entry plain of byte b in the map of
\* field: one result for each order of the two tables of the field.
DecoratedEntries(field, plain, b) ==
    LET fg == EscapeAt(field \o "_FOREGROUND", b)
        bg == EscapeAt(field \o "_BACKGROUND", b)
    IN  IF b > last_encoded_byte \/ (fg = <<>> /\ bg = <<>>) THEN {plain}
        ELSE IF bg = <<>> THEN {WrapEntry(plain, fg)}
        ELSE IF fg = <<>> THEN {WrapEntry(plain, bg)}
        ELSE {WrapEntry(WrapEntry(plain, fg), bg), WrapEntry(WrapEntry(plain, bg), fg)}

DecorationFrame(field, decorated, plain) ==
    /\ DOMAIN decorated = 0..255
    /\ \A b \in 0..255 :
          /\ decorated[b] \in DecoratedEntries(field, plain[b], b)
          /\ StripEscapes(decorated[b], FALSE) = plain[b]

\* C25: after initialize5_attributes an entry of a mapping array is its
\* undecorated string between the escape sequence of the attribute and the
\* one that resets the attributes, once for each table of the field where
\* the byte has an attribute with a non-empty escape sequence; every other
\* entry is the undecorated string, each map keeps its 256 entries, and an
\* entry without its escape sequences is its undecorated string.
C25_DecorationFrame ==
    pc = "arguments" =>
        /\ DecorationFrame("BYTE", byte_map, PlainMaps.byte_map)
        /\ DecorationFrame("TEXT", text_map, PlainMaps.text_map)

C25_Witness ==
    /\ pc = "arguments"
    /\ args = <<Option("--byte-foreground=", "red", SelABC),
                Option("--background=", "reset", SelABC)>>
    /\ byte_map[65] = <<"ESC", "[", "3", "1", "m", "4", "1", "ESC", "[", "0", "m">>
    /\ text_map[65] = <<"A">>
    /\ byte_map[68] = <<"4", "4">>

----------------------------------------------------------------------------
(* The order of the configuration, under SpecDump                          *)

\* A dump method is running or has returned.
Rendering ==
    pc \in {"dump_all", "dump_byte_field", "dump_text_field", "dump_all_single_record", "done"}

\* Where a method occurs in the calls so far.
Positions(method) == {i \in DOMAIN called : called[i] = method}

CalledOnce(method) == Cardinality(Positions(method)) = 1

CalledBefore(first, second) ==
    \A i \in Positions(first), j \in Positions(second) : i < j

\* The six options that assign attributes.
AttributeTargets ==
    {"--background=", "--byte-background=", "--byte-foreground=", "--foreground=",
     "--text-background=", "--text-foreground="}

\* The calls that the attribute options of a command line make when none
\* of them fails: the table, then the selector, for each key of an option.
RECURSIVE TableCalls(_)
TableCalls(n) == IF n = 0 THEN <<>> ELSE <<"get_table", "byte_selector">> \o TableCalls(n - 1)

RECURSIVE OptionCalls(_)
OptionCalls(options) ==
    IF options = <<>> THEN <<>>
    ELSE (IF Head(options).target \in AttributeTargets
              THEN TableCalls(Len(OptionKeys(Head(options).target)))
              ELSE <<>>)
         \o OptionCalls(Tail(options))

\* The class variables and the mapping arrays that the options and
\* initialize() settle.
configuration ==
    <<settings, BYTE_output, TEXT_output, attribute_tables, byte_map, text_map>>

\* C26 as stated: when the dump is rendered, the selector parser
\* (byte_selector), the attribute tables (get_table), the builder of the
\* mapping arrays (initialize4_maps) and the layout normalizer
\* (initialize3_layout) have run exactly once each and in that order.
C26_ComponentsOnceInOrder ==
    Rendering =>
        /\ \A method \in {"byte_selector", "get_table", "initialize4_maps",
                          "initialize3_layout", "dump"} : CalledOnce(method)
        /\ CalledBefore("byte_selector", "get_table")
        /\ CalledBefore("get_table", "initialize4_maps")
        /\ CalledBefore("initialize4_maps", "initialize3_layout")
        /\ CalledBefore("initialize3_layout", "dump")

\* C26, amended: when the dump is rendered, each attribute option has asked
\* for the table and run the selector parser once for each of its keys, in
\* command line order, then the five steps of initialize() have run once
\* each, the layout normalizer before the builder of the mapping arrays,
\* then dump(); and no step that renders changes a class variable, an
\* attribute table or a mapping array.
C26_ConfiguredThenRendered ==
    /\ [](Rendering =>
            called = OptionCalls(args)
                        \o <<"initialize1_fields", "initialize2_field_widths",
                             "initialize3_layout", "initialize4_maps",
                             "initialize5_attributes", "dump">>)
    /\ [][pc' \in {"dump_all", "dump_byte_field", "dump_text_field",
                   "dump_all_single_record", "done"}
             => UNCHANGED configuration]_vars

C26_Witness ==
    /\ pc = "done"
    /\ Cardinality(Positions("byte_selector")) = 2
    /\ text_enabled
    /\ text_map[65] # PlainMaps.text_map[65]
    /\ Len(reads) > 1
    /\ output # <<>>

----------------------------------------------------------------------------
(* The digits and the characters of a byte, under SpecPairs                *)

\* The class as initialize1_fields leaves it, when initialize() is about to
\* run.
FieldsSettled == initialize1_fields(ClassOf(settings, BYTE_output, TEXT_output))

\* C27: for every BYTE style and every TEXT style that the options select,
\* neither of them EMPTY, the class has after initialize1_fields at least
\* as many digits as characters for a byte, and initialize() does not end
\* with an internal error, in the narrow layout or the wide one.
C27_DigitsCoverChars ==
    /\ pc = "initialize" /\ FieldsSettled.status = "ok"
       /\ FieldsSettled.BYTE_output # "EMPTY" /\ FieldsSettled.TEXT_output # "EMPTY"
           => FieldsSettled.class.BYTE_digits_per_octet
                  >= FieldsSettled.class.TEXT_chars_per_octet
    /\ status # "internal_error"

C27_Witness ==
    /\ pc = "arguments"
    /\ settings.DUMP_layout = "NARROW"
    /\ TEXT_output = "CARET_ESCAPE"
    /\ BYTE_output = "HEX-LOWER"
    /\ args[1].attribute = "xxd"
    /\ settings.BYTE_digits_per_octet = settings.TEXT_chars_per_octet
    /\ "initialize3_layout" \in {called[i] : i \in DOMAIN called}

----------------------------------------------------------------------------
(* The records of dump_all, under SpecRecords                              *)

\* A dump of records with the BYTE and the TEXT field in the WIDE layout,
\* as far as it was written.
WideDump ==
    /\ pc \in {"dump_all", "done"}
    /\ settings.DUMP_record_length > 0
    /\ settings.DUMP_layout = "WIDE"
    /\ byte_enabled
    /\ text_enabled

\* The number of bytes of the reads before read r, and the address that
\* the program started from plus that number.
BytesBefore(r) == Len(Flatten(Take(reads, r - 1)))
AddressOf(r) == settings.DUMP_output_start + BytesBefore(r)

\* Record r of the output up to the text between the BYTE prefix and the
\* BYTE suffix, and from the BYTE suffix on.
RecordHead(r) ==
    (IF addr_enabled THEN AddressText(settings, AddressOf(r)) ELSE <<>>)
        \o settings.BYTE_indent \o settings.BYTE_prefix

TextStart(r) ==
    settings.BYTE_suffix \o settings.BYTE_field_separator
        \o settings.TEXT_indent \o settings.TEXT_prefix

RecordTail(r) ==
    TextStart(r) \o JoinMapped(text_map, reads[r], settings.TEXT_separator)
        \o settings.TEXT_suffix

\* The text of record r between the BYTE prefix and the BYTE suffix.
BetweenByteAffixes(r) ==
    SubSeq(Lines(output)[r], Len(RecordHead(r)) + 1,
           Len(Lines(output)[r]) - Len(RecordTail(r)))

\* The characters of a text that take a column: all but the escape
\* sequences.
VisibleWidth(text) == Len(StripEscapes(text, FALSE))

ByteUnit == settings.BYTE_digits_per_octet + settings.BYTE_separator_size

\* C28: in a WIDE dump of records of L > 0 bytes with the BYTE and the
\* TEXT field, the text of every record between the BYTE prefix and the
\* BYTE suffix is L * (digits + separator) - separator columns wide: after
\* the strings of its c bytes a record has (L - c) * (digits + separator)
\* spaces, none when it is full, so that its TEXT field starts in the
\* column where the TEXT field of a full record at its address starts.
C28_ShortRecordPadded ==
    WideDump =>
        \A r \in Records :
            /\ StartsWith(Lines(output)[r], RecordHead(r))
            /\ EndsWith(Lines(output)[r], RecordTail(r))
            /\ BetweenByteAffixes(r)
                   = JoinMapped(byte_map, reads[r], settings.BYTE_separator)
                        \o [i \in 1..((settings.DUMP_record_length - Len(reads[r])) * ByteUnit)
                               |-> " "]
            /\ VisibleWidth(BetweenByteAffixes(r))
                   = settings.DUMP_record_length * ByteUnit - settings.BYTE_separator_size
            /\ VisibleWidth(Take(Lines(output)[r],
                                 Len(Lines(output)[r]) - Len(RecordTail(r)) + Len(TextStart(r))))
                   = VisibleWidth(RecordHead(r))
                         + settings.DUMP_record_length * ByteUnit - settings.BYTE_separator_size
                         + VisibleWidth(TextStart(r))

\* Seventeen bytes in records of four with the bytes "ABC" colored: four
\* full records, the first with escape sequences, and one of a single byte
\* and nine spaces.
C28_Witness ==
    /\ WideDump
    /\ pc = "done"
    /\ Len(input) = 17
    /\ settings.DUMP_record_length = 4
    /\ ~Undecorated
    /\ [r \in DOMAIN reads |-> Len(reads[r])] = <<4, 4, 4, 4, 1, 0>>
    /\ Len(BetweenByteAffixes(1)) > VisibleWidth(BetweenByteAffixes(1))
    /\ VisibleWidth(BetweenByteAffixes(1)) = 11
    /\ BetweenByteAffixes(5) = <<"5", "1">> \o [i \in 1..9 |-> " "]

\* C29: in a dump of records of L > 0 bytes with more than one field, the
\* address at the start of a record is DUMP_output_start plus the number of
\* bytes of the records before it: DUMP_output_start for the first record,
\* and for a later one the address of the record before plus its number of
\* bytes; the address of the next record is kept likewise.
C29_AddressCountsBytes ==
    pc \in {"dump_all", "done"} /\ settings.DUMP_record_length > 0 /\ addr_enabled =>
        /\ \A r \in Records :
              /\ StartsWith(Lines(output)[LinesPerRecord * (r - 1) + 1],
                            AddressText(settings, AddressOf(r)))
              /\ r = 1 => AddressOf(r) = settings.DUMP_output_start
              /\ r > 1 => AddressOf(r) = AddressOf(r - 1) + Len(reads[r - 1])
        /\ address = settings.DUMP_output_start + Len(Flatten(reads))

\* The dump of the five bytes from the second, in records of four, with
\* addresses from 16: a record at 16 and a record of one byte at 20.
C29_Witness ==
    /\ pc = "done"
    /\ Len(input) = 5
    /\ settings.DUMP_input_start = 1
    /\ settings.DUMP_output_start = 16
    /\ settings.DUMP_record_length = 4
    /\ [r \in DOMAIN reads |-> Len(reads[r])] = <<4, 0>>
    /\ Take(Lines(output)[1], 8) = <<" ", " ", " ", " ", "1", "0", ":", " ">>

----------------------------------------------------------------------------
(* The integers of the base groups, under SpecSelector                     *)

\* C30: a selector that is a base group, 0x(...), 0X(...), 0(...) or
\* (...), around one integer made of digits of the group's base that
\* denotes a byte v is accepted and selects the byte v and no other; so is
\* (0), which selects byte 0, as 0x(00) and 0(0) do.
C30_GroupIntegersSelect ==
    Processed =>
        \A c \in GroupCases :
            TheSelector = c.text => CallStatus = "ok" /\ CallBytes = {c.value}

====
